---- MODULE Spec2Model ----
(***************************************************************************)
(* Model of the conversational assistant of gastigk/agentic-ai-bootcamp:   *)
(*   - the Agentic RAG sub-graph of src/src/rag/graph.py                   *)
(*     (retrieve_node, grade_node, rewrite_node, generate_node and the     *)
(*     graph that compile_rag_graph returns), specification Spec;          *)
(*   - the keyword router of src/src/graph.py (router_node),               *)
(*     specification SpecRouter;                                           *)
(*   - one invoke() of the main graph of src/src/graph.py (build_workflow: *)
(*     router, one domain handler, END), specification SpecTurn;           *)
(*   - the document search of src/src/tools/docs.py (_search_documents),   *)
(*     specification SpecSearch;                                           *)
(*   - the MCP client manager and the tool discovery of                    *)
(*     src/src/tools/drive_mcp.py, specification SpecMCP;                  *)
(*   - the habit log of src/src/tools/health.py (log_habit),               *)
(*     specification SpecHabit;                                            *)
(*   - the chat session of src/app.py, specification SpecApp;              *)
(*   - the query the nodes of the retrieval loop read, in the run docs_node *)
(*     starts, specification SpecQuery.                                    *)
(* Texts are TLA+ strings; the Python string methods the code relies on    *)
(* (lower, strip, the substring test "in", str of a list) are operators    *)
(* that compute character by character.                                    *)
(***************************************************************************)
EXTENDS Integers, Sequences, FiniteSets, TLC

VARIABLES
    \* ---- RAGState (src/src/rag/graph.py:46-67) and the run of the graph
    pc,            \* node about to run: "retrieve", "grade", "rewrite", "generate", "END", "error"
    question,      \* RAGState.question
    documents,     \* RAGState.documents
    generation,    \* RAGState.generation
    loop_count,    \* RAGState.loop_count
    max_loops,     \* RAGState.max_loops
    steps,         \* nodes executed so far (one log message is appended per node)
    decision,      \* value returned by the last grade_node call, "none" before the first
    grade_oracle,  \* what the oracle did in the last grade_node call
    oracle_calls,  \* number of llm.invoke calls issued in the run
    retrieve_result, \* what retrieve_tool did in the last retrieve_node call
    rewrite_oracle,  \* what the oracle did in the last rewrite_node call
    generate_oracle, \* what the oracle did in generate_node
    \* ---- one router_node call (src/src/graph.py:92-186)
    router_pc,       \* "call" before router_node runs, "returned" after
    agent_state,     \* the AgentState handed to router_node
    current_context, \* the current_context router_node returned
    scores,          \* the four keyword counts, NoScores when none was computed
    router_error,    \* exception caught inside router_node, "none" otherwise
    \* ---- one invoke() of the main graph (src/src/graph.py:608-688)
    turn_pc,           \* node about to run: "router", a handler name, "docs_rag" while
                       \* docs_node waits for rag_graph.invoke, "END"
    active_goals,      \* AgentState.active_goals: "empty" or "dict" (name -> Goal)
    handlers_run,      \* names of the handler nodes entered in this turn, in order
    returned_messages, \* the "messages" list the handler returned
    handler_error,     \* str(e) of the exception caught inside the handler, "none" otherwise
    mcp_discovery,     \* "not_attempted", "succeeded" or "failed": discovery of MCP tools in this turn
    bound_tools,       \* tool list handed to llm.bind_tools, "none" when nothing was bound
    \* ---- the document search (src/src/tools/docs.py:310-385)
    MOCK_DOCS,       \* the module-level document catalog
    search_count,    \* number of _search_documents calls made so far
    first_search,    \* query, top_k, list built and list returned by the first call
    last_search,     \* query, top_k, list built and list returned by the latest call
    \* ---- the MCP client manager (src/src/tools/drive_mcp.py:42-155, 385-418)
    MCP_AVAILABLE,      \* module flag: langchain_mcp_adapters could be imported
    manager_instance,   \* MCPClientManager._instance: 0 for None, else the object's number
    manager_client,     \* MCPClientManager._client: 0 for None, else the client's number
    manager_server_url, \* MCPClientManager._server_url, NoUrl for None
    instances_created,  \* MCPClientManager objects allocated so far
    clients_created,    \* MultiServerMCPClient objects constructed so far
    mcp_calls,          \* calls made into drive_mcp so far
    mcp_last,           \* the latest call: operation, arguments and what the caller got
    \* ---- the habit log (src/src/tools/health.py:30-210)
    MOCK_DB,      \* the module-level habit database: user -> habits, milestones
    today,        \* the calendar day datetime.now() falls on, counted from 2025-12-01
    habit_calls,  \* number of log_habit calls made so far
    logged_ok,    \* <<user, habit, day>> of every log_habit call that reported success
    last_log,     \* the latest log_habit call: arguments and the text returned
    \* ---- the chat session of the web app (src/app.py:81-92, 271-329)
    list_objects,        \* the message lists alive in the process, by object number
    session_agent_state, \* st.session_state.agent_state: number of its "messages" list
    session_messages,    \* st.session_state.messages, the visible chat history
    chat_turns,          \* chat inputs handled so far
    last_invoke,         \* "returned" or "raised": workflow.invoke in the latest turn
    \* ---- the retrieve tool compile_rag_graph was given (src/src/rag/graph.py:428)
    retrieve_tool,       \* "retrieve_documents" as build_workflow and docs_node pass it,
                         \* "other" for any other callable, "none" outside a turn
    \* ---- the query each node of the retrieval loop works on
    initial_question,    \* the question the run was started with
    rewritten,           \* the query the latest answered rewrite produced, NoRewrite before
    node_input           \* the latest node run and the question it read from the state

vars == <<pc, question, documents, generation, loop_count, max_loops, steps,
          decision, grade_oracle, oracle_calls,
          retrieve_result, rewrite_oracle, generate_oracle,
          router_pc, agent_state, current_context, scores, router_error,
          turn_pc, active_goals, handlers_run, returned_messages, handler_error,
          mcp_discovery, bound_tools,
          MOCK_DOCS, search_count, first_search, last_search,
          MCP_AVAILABLE, manager_instance, manager_client, manager_server_url,
          instances_created, clients_created, mcp_calls, mcp_last,
          MOCK_DB, today, habit_calls, logged_ok, last_log,
          list_objects, session_agent_state, session_messages, chat_turns, last_invoke,
          retrieve_tool, initial_question, rewritten, node_input>>

rag_vars == <<pc, question, documents, generation, loop_count, max_loops, steps,
              decision, grade_oracle, oracle_calls,
              retrieve_result, rewrite_oracle, generate_oracle>>

router_vars == <<router_pc, agent_state, current_context, scores, router_error>>

turn_vars == <<turn_pc, active_goals, handlers_run, returned_messages, handler_error,
               mcp_discovery, bound_tools>>

search_vars == <<MOCK_DOCS, search_count, first_search, last_search>>

mcp_vars == <<MCP_AVAILABLE, manager_instance, manager_client, manager_server_url,
              instances_created, clients_created, mcp_calls, mcp_last>>

habit_vars == <<MOCK_DB, today, habit_calls, logged_ok, last_log>>

app_vars == <<list_objects, session_agent_state, session_messages, chat_turns,
              last_invoke>>

\* the variables of the components added after the document search
query_vars == <<initial_question, rewritten, node_input>>

ext_vars == <<mcp_vars, habit_vars, app_vars, retrieve_tool, query_vars>>

-----------------------------------------------------------------------------
(* Python string methods                                                   *)

UpperChars == "ABCDEFGHIJKLMNOPQRSTUVWXYZÁÉÍÓÚÑÜ"
LowerChars == "abcdefghijklmnopqrstuvwxyzáéíóúñü"

Whitespace == {" ", "\t", "\n", "\r"}

CharAt(s, i) == SubSeq(s, i, i)

LowerChar(c) ==
    IF \E i \in 1..Len(UpperChars) : CharAt(UpperChars, i) = c
    THEN CharAt(LowerChars, CHOOSE i \in 1..Len(UpperChars) : CharAt(UpperChars, i) = c)
    ELSE c

RECURSIVE Lower(_)
\* str.lower()
Lower(s) ==
    IF Len(s) = 0 THEN ""
    ELSE IF Len(s) = 1 THEN LowerChar(s)
    ELSE LET half == Len(s) \div 2 IN
         Lower(SubSeq(s, 1, half)) \o Lower(SubSeq(s, half + 1, Len(s)))

RECURSIVE LStrip(_)
LStrip(s) ==
    IF Len(s) = 0 THEN ""
    ELSE IF CharAt(s, 1) \in Whitespace THEN LStrip(SubSeq(s, 2, Len(s)))
    ELSE s

RECURSIVE RStrip(_)
RStrip(s) ==
    IF Len(s) = 0 THEN ""
    ELSE IF CharAt(s, Len(s)) \in Whitespace THEN RStrip(SubSeq(s, 1, Len(s) - 1))
    ELSE s

\* str.strip()
Strip(s) == RStrip(LStrip(s))

\* the substring test  sub in s
Contains(sub, s) ==
    \E i \in 1..(Len(s) - Len(sub) + 1) : SubSeq(s, i, i + Len(sub) - 1) = sub

-----------------------------------------------------------------------------
(* Bounds and inputs of the retrieval loop                                 *)

\* largest max_loops a run is started with (docs_node passes 3)
MaxLoopsBound == 3

\* number of nodes one invoke() of the compiled graph may execute before the
\* graph runtime aborts the run with GraphRecursionError; neither
\* compile_rag_graph nor docs_node passes a limit of its own
RecursionLimit == 25

Questions == {"insurance policy coverage", "xyz", ""}

\* what retrieve_tool(question) may do: return a list of document records,
\* return a formatted text (as the @tool retrieve_documents does), or raise
ToolOutcomes ==
    { [kind |-> "list", docs |-> <<>>],
      [kind |-> "list", docs |-> <<1>>],
      [kind |-> "list", docs |-> <<5, 3>>],
      [kind |-> "text", docs |-> <<>>],
      [kind |-> "raise", docs |-> <<>>] }

GradeReplies == {"Yes", "No, not relevant.", "yes", " NO \n", "Eyes", "YES."}
RewriteReplies == {" seguro de auto \n", "póliza"}
GenerateReplies == {" La póliza cubre daños a terceros. \n", "No sé"}

\* the callables compile_rag_graph may be given
RetrieveTools == {"retrieve_documents", "other"}

\* faulty variant of retrieve_documents: the records found are returned
retrieve_documents_returns_records ==
    { [kind |-> "list", docs |-> <<1>>], [kind |-> "list", docs |-> <<>>] }

\* retrieve_documents(query): every return statement of the tool returns a
\* str (the too-short notice, the nothing-found notice, the formatted
\* results, or the text of a caught exception)
retrieve_documents == { [kind |-> "text", docs |-> <<>>] }

\* what retrieve_tool(question) may do, by the callable that was wired
tool_outcomes(tool) ==
    IF tool = "retrieve_documents" THEN retrieve_documents ELSE ToolOutcomes

\* what one llm.invoke may do: answer with a text, answer with a content that
\* is not a string (a list of content blocks), or raise
OracleOutcomes(replies) ==
    { [kind |-> "reply", text |-> r] : r \in replies }
        \cup { [kind |-> "nontext", text |-> ""], [kind |-> "raise", text |-> ""] }

NotCalled == [kind |-> "none", text |-> ""]

\* generate_node returned before llm.invoke: there were no documents
NoDocuments == [kind |-> "nodocs", text |-> ""]

OracleError == "Connection error."

NoDocumentsMessage ==
    "No pude encontrar documentos relevantes para tu pregunta. Por favor, intenta con una pregunta más específica o verifica que los documentos necesarios estén cargados."

GenerateErrorPrefix == "Error generando respuesta: "
AttributeErrorText == "'list' object has no attribute 'strip'"

NoScores == [finance |-> -1, health |-> -1, docs |-> -1, drive |-> -1]

-----------------------------------------------------------------------------
(* Nodes of the retrieval loop                                             *)

\* create_initial_rag_state(question, max_loops); START -> retrieve
InitRAG ==
    /\ question \in Questions
    /\ max_loops \in 0..MaxLoopsBound
    /\ documents = <<>>
    /\ generation = ""
    /\ loop_count = 0
    /\ pc = "retrieve"
    /\ steps = 0
    /\ decision = "none"
    /\ grade_oracle = NotCalled
    /\ oracle_calls = 0
    /\ retrieve_result = "none"
    /\ rewrite_oracle = NotCalled
    /\ generate_oracle = NotCalled

\* faulty variant of retrieve_node: a text result is stored as the documents
retrieve_node_stores_text(outcome) ==
    IF outcome.kind = "list" THEN outcome.docs
    ELSE IF outcome.kind = "text" THEN <<0>>
    ELSE <<>>

\* documents stored by retrieve_node for one outcome of retrieve_tool:
\* a text result passes len() and the truth test, then docs[0].get raises
\* and the except branch stores []
retrieve_node(outcome) ==
    IF outcome.kind = "list" THEN outcome.docs ELSE <<>>

\* faulty variant of grade_node: the reply is not lower-cased
grade_node_case_sensitive(docs, outcome) ==
    IF docs = <<>> THEN "generate"
    ELSE IF outcome.kind # "reply" THEN "generate"
    ELSE IF Contains("yes", Strip(outcome.text)) THEN "generate"
    ELSE "rewrite"

\* faulty variant of grade_node: no short-circuit on an empty document list
grade_node_no_empty_check(docs, outcome) ==
    IF outcome.kind # "reply" THEN "generate"
    ELSE IF Contains("yes", Strip(Lower(outcome.text))) THEN "generate"
    ELSE "rewrite"

\* faulty variant of grade_node: a failing oracle call asks for a rewrite
grade_node_fail_closed(docs, outcome) ==
    IF docs = <<>> THEN "generate"
    ELSE IF outcome.kind # "reply" THEN "rewrite"
    ELSE IF Contains("yes", Strip(Lower(outcome.text))) THEN "generate"
    ELSE "rewrite"

\* value returned by grade_node for the stored documents and one outcome
\* of the oracle call
grade_node(docs, outcome) ==
    IF docs = <<>> THEN "generate"
    ELSE IF outcome.kind # "reply" THEN "generate"
    ELSE IF Contains("yes", Strip(Lower(outcome.text))) THEN "generate"
    ELSE "rewrite"

\* the path map of add_conditional_edges("retrieve", grade_node, {...})
grade_edge(d) ==
    IF d = "generate" THEN "generate" ELSE "rewrite"

RetrieveWith(outcomes) ==
    /\ pc = "retrieve"
    /\ steps < RecursionLimit
    /\ \E outcome \in outcomes :
          /\ documents' = retrieve_node(outcome)
          /\ retrieve_result' = outcome.kind
    /\ steps' = steps + 1
    /\ pc' = "grade"
    /\ UNCHANGED <<question, generation, loop_count, max_loops, decision,
                   grade_oracle, oracle_calls, rewrite_oracle, generate_oracle>>

\* retrieve_node with a retrieve_tool that may do anything
Retrieve == RetrieveWith(ToolOutcomes)

Grade ==
    /\ pc = "grade"
    /\ \E outcome \in OracleOutcomes(GradeReplies) :
          LET called == documents # <<>> IN
          /\ grade_oracle' = IF called THEN outcome ELSE NotCalled
          /\ oracle_calls' = IF called THEN oracle_calls + 1 ELSE oracle_calls
          /\ decision' = grade_node(documents, outcome)
          /\ pc' = grade_edge(grade_node(documents, outcome))
    /\ UNCHANGED <<question, documents, generation, loop_count, max_loops, steps,
                   retrieve_result, rewrite_oracle, generate_oracle>>

\* faulty variant of rewrite_node: the reply is stored untrimmed
rewrite_node_no_strip(q, count, outcome) ==
    IF outcome.kind = "reply"
    THEN [question |-> outcome.text, loop_count |-> count + 1]
    ELSE [question |-> q, loop_count |-> count + 1]

\* faulty variant of rewrite_node: the except branch does not count the loop
rewrite_node_no_count_on_error(q, count, outcome) ==
    IF outcome.kind = "reply"
    THEN [question |-> Strip(outcome.text), loop_count |-> count + 1]
    ELSE [question |-> q, loop_count |-> count]

\* question and loop_count after rewrite_node, for the state's question and
\* loop_count and one outcome of the oracle call; a content that is not a
\* string makes .strip() raise and ends in the except branch like a failed call
rewrite_node(q, count, outcome) ==
    IF outcome.kind = "reply"
    THEN [question |-> Strip(outcome.text), loop_count |-> count + 1]
    ELSE [question |-> q, loop_count |-> count + 1]

\* faulty variant of generate_node: the oracle is asked even without documents
generate_node_no_empty_check(docs, outcome) ==
    CASE outcome.kind = "reply" -> Strip(outcome.text)
      [] outcome.kind = "nontext" -> GenerateErrorPrefix \o AttributeErrorText
      [] OTHER -> GenerateErrorPrefix \o OracleError

\* faulty variant of generate_node: a failed call leaves an empty generation
generate_node_silent_error(docs, outcome) ==
    IF docs = <<>> THEN NoDocumentsMessage
    ELSE CASE outcome.kind = "reply" -> Strip(outcome.text)
           [] OTHER -> ""

\* generation set by generate_node for the stored documents and one outcome
\* of the oracle call
generate_node(docs, outcome) ==
    IF docs = <<>> THEN NoDocumentsMessage
    ELSE CASE outcome.kind = "reply" -> Strip(outcome.text)
           [] outcome.kind = "nontext" -> GenerateErrorPrefix \o AttributeErrorText
           [] OTHER -> GenerateErrorPrefix \o OracleError

Rewrite ==
    /\ pc = "rewrite"
    /\ steps < RecursionLimit
    /\ \E outcome \in OracleOutcomes(RewriteReplies) :
          /\ question' = rewrite_node(question, loop_count, outcome).question
          /\ loop_count' = rewrite_node(question, loop_count, outcome).loop_count
          /\ rewrite_oracle' = outcome
    /\ oracle_calls' = oracle_calls + 1
    /\ steps' = steps + 1
    /\ pc' = "retrieve"
    /\ UNCHANGED <<documents, generation, max_loops, decision, grade_oracle,
                   retrieve_result, generate_oracle>>

Generate ==
    /\ pc = "generate"
    /\ steps < RecursionLimit
    /\ \E outcome \in OracleOutcomes(GenerateReplies) :
          LET called == documents # <<>> IN
          /\ generation' = generate_node(documents, outcome)
          /\ generate_oracle' = IF called THEN outcome ELSE NoDocuments
          /\ oracle_calls' = IF called THEN oracle_calls + 1 ELSE oracle_calls
    /\ steps' = steps + 1
    /\ pc' = "END"
    /\ UNCHANGED <<question, documents, loop_count, max_loops, decision, grade_oracle,
                   retrieve_result, rewrite_oracle>>

\* invoke() aborts when a node is still due after RecursionLimit nodes ran
GraphRecursionError ==
    /\ pc \in {"retrieve", "rewrite", "generate"}
    /\ steps = RecursionLimit
    /\ pc' = "error"
    /\ UNCHANGED <<question, documents, generation, loop_count, max_loops, steps,
                   decision, grade_oracle, oracle_calls,
                   retrieve_result, rewrite_oracle, generate_oracle>>

-----------------------------------------------------------------------------
(* Keyword router: router_node of src/src/graph.py                         *)

finance_keywords ==
    << "dinero", "gasto", "presupuesto", "gastos", "financiero",
       "salario", "ingresos", "presupuesto", "tarjeta", "banco",
       "balance", "cuenta", "pago", "factura", "deuda", "costo" >>

health_keywords ==
    << "ejercicio", "hábito", "salud", "gym", "deporte", "médico",
       "medicina", "ejercitar", "correr", "caminar", "yoga", "meditación",
       "hábitos", "rutina", "entrenamiento", "actividad", "peso" >>

docs_keywords ==
    << "documento", "contrato", "póliza", "información", "buscar",
       "seguro", "archivo", "plan", "calendario", "fecha", "emergencia",
       "contacto", "teléfono", "dirección", "referencia", "consultá" >>

drive_keywords ==
    << "google drive", "drive", "archivo", "carpeta", "cloud", "adjunto",
       "descargar", "compartido", "fotos", "documentos", "nube", "guardar",
       "drive compartido", "mi drive", "archivo en la nube" >>

Categories == {"finance", "health", "docs", "drive", "general"}

\* faulty variant of KeywordScore: a keyword counts only when it is the
\* whole text
KeywordScore_whole_text(keywords, user_text) ==
    Cardinality({ i \in 1..Len(keywords) : keywords[i] = user_text })

\* sum(1 for kw in keywords if kw in user_text): one per list entry that
\* occurs in the text, a keyword listed twice counts twice
KeywordScore(keywords, user_text) ==
    Cardinality({ i \in 1..Len(keywords) : Contains(keywords[i], user_text) })

router_scores(user_text) ==
    [ finance |-> KeywordScore(finance_keywords, user_text),
      health  |-> KeywordScore(health_keywords, user_text),
      docs    |-> KeywordScore(docs_keywords, user_text),
      drive   |-> KeywordScore(drive_keywords, user_text) ]

\* faulty variant of router_context: the docs branch is tested first
router_context_docs_first(sc) ==
    IF sc.docs > 0
    THEN "docs"
    ELSE IF sc.drive > sc.finance /\ sc.drive > sc.health /\ sc.drive > 0
    THEN "drive"
    ELSE IF sc.finance > sc.health /\ sc.finance > 0
    THEN "finance"
    ELSE IF sc.health > 0
    THEN "health"
    ELSE "general"

\* faulty variant of router_context: the default is the initial "unknown"
router_context_unknown_default(sc) ==
    IF sc.drive > sc.finance /\ sc.drive > sc.health /\ sc.drive > sc.docs /\ sc.drive > 0
    THEN "drive"
    ELSE IF sc.finance > sc.health /\ sc.finance > sc.docs /\ sc.finance > 0
    THEN "finance"
    ELSE IF sc.health > sc.docs /\ sc.health > 0
    THEN "health"
    ELSE IF sc.docs > 0
    THEN "docs"
    ELSE "unknown"

\* faulty variant of router_context: docs must also beat health
router_context_docs_strict(sc) ==
    IF sc.drive > sc.finance /\ sc.drive > sc.health /\ sc.drive > sc.docs /\ sc.drive > 0
    THEN "drive"
    ELSE IF sc.finance > sc.health /\ sc.finance > sc.docs /\ sc.finance > 0
    THEN "finance"
    ELSE IF sc.health > sc.docs /\ sc.health > 0
    THEN "health"
    ELSE IF sc.docs > sc.health /\ sc.docs > 0
    THEN "docs"
    ELSE "general"

\* the if / elif chain that picks the context from the four counts
router_context(sc) ==
    IF sc.drive > sc.finance /\ sc.drive > sc.health /\ sc.drive > sc.docs /\ sc.drive > 0
    THEN "drive"
    ELSE IF sc.finance > sc.health /\ sc.finance > sc.docs /\ sc.finance > 0
    THEN "finance"
    ELSE IF sc.health > sc.docs /\ sc.health > 0
    THEN "health"
    ELSE IF sc.docs > 0
    THEN "docs"
    ELSE "general"

\* str(content) of a list content holding one text
PyStr(content) ==
    IF content.kind = "str" THEN content.text ELSE "['" \o content.text \o "']"

\* exception raised while the text of the last message is extracted, "none"
\* when it is extracted: a dict has no attribute content, a list has no lower
router_text_error(last_message) ==
    IF last_message.type = "dict" THEN "AttributeError"
    ELSE IF last_message.type = "human" /\ last_message.content.kind # "str" THEN "AttributeError"
    ELSE "none"

router_user_text(last_message) ==
    IF last_message.type = "human"
    THEN Lower(last_message.content.text)
    ELSE Lower(PyStr(last_message.content))

\* faulty variant of router_except: the context is left at "unknown"
router_except_unknown(e) ==
    [context |-> "unknown", scores |-> NoScores, error |-> e]

\* what the except branch returns
router_except(e) ==
    [context |-> "general", scores |-> NoScores, error |-> e]

\* router_node as a function of the AgentState it is given
router_node(st) ==
    IF ~st.has_messages THEN router_except("KeyError")
    ELSE IF st.messages = <<>>
    THEN [context |-> "general", scores |-> NoScores, error |-> "none"]
    ELSE LET last_message == st.messages[Len(st.messages)] IN
         IF router_text_error(last_message) # "none"
         THEN router_except(router_text_error(last_message))
         ELSE LET sc == router_scores(router_user_text(last_message)) IN
              [context |-> router_context(sc), scores |-> sc, error |-> "none"]

\* ---- inputs of the router
MaxWords == 2

Vocabulary ==
    { "dinero", "gastos", "Presupuesto", "salud", "hábitos", "archivo",
      "documentos", "Google Drive", "carpeta", "póliza", "dolor", "PLAN" }

FixedTexts ==
    { "",
      "¿Cuánto dinero gasté?",
      "Tengo dolor de cabeza",
      "¿Dónde están mis archivos importantes?",
      "¿Cómo descargo un archivo?",
      "Necesito acceder a Google Drive",
      "Muéstrame mi carpeta compartida",
      "¿Cuál es la capital de Francia?",
      "¿Dónde está mi póliza de seguro?" }

RECURSIVE Phrases(_)
\* the texts made of n vocabulary words separated by one space
Phrases(n) ==
    IF n = 1 THEN Vocabulary
    ELSE { p \o " " \o w : p \in Phrases(n - 1), w \in Vocabulary }

Texts == FixedTexts \cup UNION { Phrases(n) : n \in 1..MaxWords }

Contents == { [kind |-> k, text |-> t] : k \in {"str", "list"}, t \in Texts }

Messages == { [type |-> ty, content |-> c] : ty \in {"human", "ai", "dict"}, c \in Contents }

EarlierMessage == [type |-> "human", content |-> [kind |-> "str", text |-> "dinero"]]

RouterInputs ==
    { [has_messages |-> FALSE, messages |-> <<>>],
      [has_messages |-> TRUE, messages |-> <<>>] }
        \cup { [has_messages |-> TRUE, messages |-> <<m>>] : m \in Messages }
        \cup { [has_messages |-> TRUE, messages |-> <<EarlierMessage, m>>] : m \in Messages }

InitRouter ==
    /\ router_pc = "call"
    /\ agent_state \in RouterInputs
    /\ current_context = "unknown"
    /\ scores = NoScores
    /\ router_error = "none"

RouterNode ==
    /\ router_pc = "call"
    /\ LET r == router_node(agent_state) IN
          /\ current_context' = r.context
          /\ scores' = r.scores
          /\ router_error' = r.error
    /\ router_pc' = "returned"
    /\ UNCHANGED agent_state

RouterIdle ==
    /\ router_pc = "idle"
    /\ agent_state = [has_messages |-> FALSE, messages |-> <<>>]
    /\ current_context = "unknown"
    /\ scores = NoScores
    /\ router_error = "none"

RAGIdle ==
    /\ pc = "idle"
    /\ question = ""
    /\ max_loops = 0
    /\ documents = <<>>
    /\ generation = ""
    /\ loop_count = 0
    /\ steps = 0
    /\ decision = "none"
    /\ grade_oracle = NotCalled
    /\ oracle_calls = 0
    /\ retrieve_result = "none"
    /\ rewrite_oracle = NotCalled
    /\ generate_oracle = NotCalled

\* None as the value of MCPClientManager._server_url
NoUrl == "None"

NoMcpCall ==
    [op |-> "none", server_url |-> NoUrl, fallback_to_mock |-> FALSE,
     manager |-> 0, outcome |-> "none", client |-> 0, tools |-> <<>>,
     discovery |-> "not_attempted"]

MCPIdle ==
    /\ MCP_AVAILABLE = FALSE
    /\ manager_instance = 0
    /\ manager_client = 0
    /\ manager_server_url = NoUrl
    /\ instances_created = 0
    /\ clients_created = 0
    /\ mcp_calls = -1
    /\ mcp_last = NoMcpCall

NoLog == [user_id |-> "", habit_name |-> "", additional_info |-> "",
          kind |-> "none", text |-> ""]

HabitIdle ==
    /\ MOCK_DB = <<>>
    /\ today = -1
    /\ habit_calls = -1
    /\ logged_ok = {}
    /\ last_log = NoLog

AppIdle ==
    /\ list_objects = <<>>
    /\ session_agent_state = [messages |-> 0]
    /\ session_messages = <<>>
    /\ chat_turns = -1
    /\ last_invoke = "none"

\* no rag graph was compiled
NoToolWired == retrieve_tool = "none"

\* no rewrite was answered in the run
NoRewrite == [done |-> FALSE, question |-> ""]

NoNode == [node |-> "none", question |-> ""]

QueryIdle ==
    /\ initial_question = ""
    /\ rewritten = NoRewrite
    /\ node_input = NoNode

ExtIdle == MCPIdle /\ HabitIdle /\ AppIdle /\ NoToolWired /\ QueryIdle

-----------------------------------------------------------------------------
(* Document search: _search_documents of src/src/tools/docs.py            *)

\* largest top_k a search is called with (retrieve_documents passes 3)
MaxTopK == 3

\* number of searches in one run of the model
MaxSearches == 2

\* MOCK_DOCS as the module defines it; the content of a document is
\* represented by the document's id in the similarity tables below
MockDocs ==
    << [id |-> 1, title |-> "Póliza de Seguro de Auto", category |-> "insurance",
        tags |-> <<"auto", "seguro", "póliza", "cobertura", "deducible">>],
       [id |-> 2, title |-> "Plan Nutricional Familiar", category |-> "nutrition",
        tags |-> <<"dieta", "nutrición", "comida", "salud", "alimentos">>],
       [id |-> 3, title |-> "Contrato de Arrendamiento", category |-> "legal",
        tags |-> <<"arrendamiento", "renta", "contrato", "pago", "vivienda">>],
       [id |-> 4, title |-> "Rutina de Ejercicio", category |-> "health",
        tags |-> <<"ejercicio", "gym", "fitness", "deporte", "rutina">>],
       [id |-> 5, title |-> "Presupuesto Mensual Familiar", category |-> "finance",
        tags |-> <<"presupuesto", "gastos", "finanzas", "dinero", "ingresos">>],
       [id |-> 6, title |-> "Calendario Médico y Vacunas", category |-> "health",
        tags |-> <<"vacunas", "médico", "salud", "citas", "chequeo">>],
       [id |-> 7, title |-> "Números Importantes de Emergencia", category |-> "emergency",
        tags |-> <<"emergencia", "teléfono", "contacto", "hospital", "ayuda">>] >>

\* the queries searched for; the last two are excerpts of the content of
\* document 1
QueryList ==
    << "insurance policy coverage",
       "Plan Nutricional Familiar",
       "salud seguro gastos ejercicio",
       "",
       " hasta $30,000\nDeducible: $500\nVigencia: 2025-01-0",
       "ible: $500\nVigencia: 2025-01-01 hasta 2026-01-01\nV" >>

SearchQueries == { QueryList[i] : i \in 1..Len(QueryList) }

QueryIndex(query) == CHOOSE i \in 1..Len(QueryList) : QueryList[i] = query

\* _calculate_similarity(query, doc["content"][:300]) in millionths, one row
\* per query of QueryList, one column per document id
PrefixSimilarity ==
    << <<24615, 12308, 36923, 18462, 24615, 12308, 12308>>,
       <<18462, 86154, 24615, 18462, 24615, 12308, 6154>>,
       <<54711, 12158, 24316, 12158, 42553, 6079, 18237>>,
       <<0, 0, 0, 0, 0, 0, 0>>,
       <<285714, 11429, 91429, 22857, 40000, 28571, 40000>>,
       <<257143, 22857, 108571, 28571, 11429, 51429, 45714>> >>

\* _calculate_similarity(query, doc["content"]) in millionths
ContentSimilarity ==
    << <<7752, 4860, 13115, 19310, 14993, 7989, 4831>>,
       <<7752, 34022, 17486, 8276, 35982, 23968, 2415>>,
       <<3846, 4837, 4353, 8230, 2981, 2649, 0>>,
       <<0, 0, 0, 0, 0, 0, 0>>,
       <<184843, 7075, 17021, 24000, 14451, 15464, 9379>>,
       <<170055, 4717, 14894, 29333, 8671, 12887, 11723>> >>

\* the threshold 0.15 of phase 2, in millionths
SimilarityThreshold == 150000

RECURSIVE WordEnd(_, _)
\* index of the first whitespace of s at or after i, Len(s) + 1 if none
WordEnd(s, i) ==
    IF i > Len(s) \/ CharAt(s, i) \in Whitespace THEN i ELSE WordEnd(s, i + 1)

RECURSIVE Split(_)
\* str.split(): the words of s separated by runs of whitespace
Split(s) ==
    LET t == LStrip(s) IN
    IF t = "" THEN <<>>
    ELSE LET n == WordEnd(t, 1) IN
         <<SubSeq(t, 1, n - 1)>> \o Split(SubSeq(t, n, Len(t)))

LowerAll(seq) == [i \in 1..Len(seq) |-> Lower(seq[i])]

\* twice what one keyword adds to tag_matches for a document: 2 for a tag
\* equal to the keyword, 1 for a tag containing it, 1.5 for the title
\* containing it, 1 for the category containing it
keyword_weight(keyword, doc_tags, doc_title, doc_category) ==
    IF \E i \in 1..Len(doc_tags) : doc_tags[i] = keyword THEN 4
    ELSE IF \E i \in 1..Len(doc_tags) : Contains(keyword, doc_tags[i]) THEN 2
    ELSE IF Contains(keyword, doc_title) THEN 3
    ELSE IF Contains(keyword, doc_category) THEN 2
    ELSE 0

RECURSIVE SumWeights(_, _, _, _)
SumWeights(keywords, doc_tags, doc_title, doc_category) ==
    IF keywords = <<>> THEN 0
    ELSE keyword_weight(Head(keywords), doc_tags, doc_title, doc_category)
            + SumWeights(Tail(keywords), doc_tags, doc_title, doc_category)

\* doc_tags, doc_title and doc_category of a document
lowered_fields(doc) ==
    [tags |-> LowerAll(doc.tags), title |-> Lower(doc.title),
     category |-> Lower(doc.category)]

\* the lowered fields of the documents of MockDocs and the keywords of the
\* queries of QueryList, computed once
LoweredMockDocs == [i \in 1..Len(MockDocs) |-> lowered_fields(MockDocs[i])]
QueryKeywords == [i \in 1..Len(QueryList) |-> Split(Lower(QueryList[i]))]

doc_fields(doc) ==
    IF \E i \in 1..Len(MockDocs) : MockDocs[i] = doc
    THEN LoweredMockDocs[CHOOSE i \in 1..Len(MockDocs) : MockDocs[i] = doc]
    ELSE lowered_fields(doc)

\* query.lower().split()
query_keywords(query) ==
    IF query \in SearchQueries THEN QueryKeywords[QueryIndex(query)]
    ELSE Split(Lower(query))

\* twice tag_matches of a document
tag_matches(keywords, doc) ==
    LET f == doc_fields(doc) IN
    SumWeights(keywords, f.tags, f.title, f.category)

\* scores are kept in units of 10^-7:
\* total_score = tag_matches * 0.6 + content_score * 0.4
total_score(matches, content_score) == matches * 3000000 + content_score * 4

\* the score of a content match is the similarity itself
content_match_score(similarity) == similarity * 10

RECURSIVE tag_phase(_, _, _)
\* phase 1: the documents with tag_matches > 0, in catalog order
tag_phase(catalog, query, keywords) ==
    IF catalog = <<>> THEN <<>>
    ELSE LET doc == Head(catalog)
             matches == tag_matches(keywords, doc)
             rest == tag_phase(Tail(catalog), query, keywords)
         IN IF matches > 0
            THEN <<[doc |-> doc,
                    score |-> total_score(matches, PrefixSimilarity[QueryIndex(query)][doc.id]),
                    reason |-> "tag_match"]>> \o rest
            ELSE rest

RECURSIVE content_phase(_, _, _)
\* phase 2: the documents not yet in results whose similarity to the whole
\* content exceeds the threshold are appended, in catalog order
content_phase(catalog, query, results) ==
    IF catalog = <<>> THEN results
    ELSE LET doc == Head(catalog)
             similarity == ContentSimilarity[QueryIndex(query)][doc.id]
         IN IF \E i \in 1..Len(results) : results[i].doc.id = doc.id
            THEN content_phase(Tail(catalog), query, results)
            ELSE IF similarity > SimilarityThreshold
            THEN content_phase(Tail(catalog), query,
                     Append(results, [doc |-> doc,
                                      score |-> content_match_score(similarity),
                                      reason |-> "content_match"]))
            ELSE content_phase(Tail(catalog), query, results)

\* faulty variant of SortByScore: the list is left in the order it was built
SortByScore_keeps_order(results) == results

RECURSIVE InsertByScore(_, _)
\* r is put behind every entry whose score is not smaller than its own
InsertByScore(sorted, r) ==
    IF sorted = <<>> THEN <<r>>
    ELSE IF Head(sorted).score >= r.score
    THEN <<Head(sorted)>> \o InsertByScore(Tail(sorted), r)
    ELSE <<r>> \o sorted

RECURSIVE SortByScore(_)
\* results.sort(key=score, reverse=True): descending and stable
SortByScore(results) ==
    IF results = <<>> THEN <<>>
    ELSE InsertByScore(SortByScore(SubSeq(results, 1, Len(results) - 1)),
                       results[Len(results)])

\* results[:top_k] for top_k >= 0
Truncate(results, top_k) ==
    SubSeq(results, 1, IF top_k < Len(results) THEN top_k ELSE Len(results))

\* faulty variant of search_candidates: phase 2 runs whatever phase 1 found
search_candidates_always_content(catalog, query, top_k) ==
    content_phase(catalog, query, tag_phase(catalog, query, query_keywords(query)))

\* the list results before it is sorted: phase 1, then phase 2 when phase 1
\* left fewer than top_k entries
search_candidates(catalog, query, top_k) ==
    LET tagged == tag_phase(catalog, query, query_keywords(query)) IN
    IF Len(tagged) < top_k
    THEN content_phase(catalog, query, tagged)
    ELSE tagged

\* sort by score and keep the first top_k
ranked(results, top_k) == Truncate(SortByScore(results), top_k)

\* the list _search_documents returns
search_results(catalog, query, top_k) ==
    ranked(search_candidates(catalog, query, top_k), top_k)

RECURSIVE Without(_, _)
\* the documents of catalog that are not in results
Without(catalog, results) ==
    IF catalog = <<>> THEN <<>>
    ELSE IF \E i \in 1..Len(results) : results[i].doc.id = Head(catalog).id
    THEN Without(Tail(catalog), results)
    ELSE <<Head(catalog)>> \o Without(Tail(catalog), results)

\* faulty variant of search_documents: the returned documents are taken out
\* of the catalog
search_documents_consuming(catalog, query, top_k) ==
    LET found == search_candidates(catalog, query, top_k) IN
    [candidates |-> found,
     results |-> ranked(found, top_k),
     catalog |-> Without(catalog, ranked(found, top_k))]

\* _search_documents: the list it builds, the list it returns and what it
\* leaves in MOCK_DOCS; the catalog is only iterated over
search_documents(catalog, query, top_k) ==
    LET found == search_candidates(catalog, query, top_k) IN
    [candidates |-> found,
     results |-> ranked(found, top_k),
     catalog |-> catalog]

NoSearch == [query |-> "", top_k |-> -1, candidates |-> <<>>, results |-> <<>>]

InitSearch ==
    /\ MOCK_DOCS = MockDocs
    /\ search_count = 0
    /\ first_search = NoSearch
    /\ last_search = NoSearch

SearchIdle ==
    /\ MOCK_DOCS = MockDocs
    /\ search_count = -1
    /\ first_search = NoSearch
    /\ last_search = NoSearch

\* one call _search_documents(query, top_k)
Search ==
    /\ search_count >= 0
    /\ search_count < MaxSearches
    /\ \E query \in SearchQueries, top_k \in 0..MaxTopK :
          LET r == search_documents(MOCK_DOCS, query, top_k)
              call == [query |-> query, top_k |-> top_k,
                       candidates |-> r.candidates, results |-> r.results]
          IN /\ last_search' = call
             /\ first_search' = IF search_count = 0 THEN call ELSE first_search
             /\ MOCK_DOCS' = r.catalog
    /\ search_count' = search_count + 1

-----------------------------------------------------------------------------
(* Main graph: router -> one domain handler -> END (build_workflow)        *)

\* max_loops docs_node passes to create_initial_rag_state
DocsMaxLoops == 3

AssistantMessage(text) == [type |-> "ai", content |-> [kind |-> "str", text |-> text]]

\* prefixes of the error replies (the source puts a cross mark symbol and a
\* space in front of each)
FinanceErrorPrefix == "Error en finance_node: "
HealthErrorPrefix == "Error en health_node: "
DocsErrorPrefix == "Error en docs_node (Agentic RAG): "
DriveErrorPrefix == "Error en drive_node (MCP): "
GeneralErrorPrefix == "Error en general_node: "

DocsNoMessagesReply == "Por favor, cuéntame qué información de documentos necesitas."

\* str(e) of the exceptions a handler may meet
BindError == "bind_tools is not supported by this model"
GoalAttributeError == "'str' object has no attribute 'name'"
MessagesKeyError == "'messages'"
GraphRecursionErrorText == "Recursion limit reached without hitting a stop condition."

\* what llm.bind_tools(tools) may do
BindOutcomes == {"ok", "raise"}

\* what the handler's llm.invoke may do: answer with a text, answer with a
\* tool call (an AIMessage with empty content), or raise
HandlerOutcomes ==
    { [kind |-> "reply", text |-> "Claro, te ayudo."],
      [kind |-> "tool_call", text |-> ""],
      [kind |-> "raise", text |-> ""] }

\* exception raised by state["messages"], "none" when the key is there
messages_error(st) == IF st.has_messages THEN "none" ELSE MessagesKeyError

\* exception raised while goals_text is built: iterating a non-empty dict
\* yields its keys, and a str has no attribute name
goals_text_error(goals) == IF goals = "dict" THEN GoalAttributeError ELSE "none"

\* first exception met in a handler that binds tools, builds its prompt and
\* invokes the oracle, in the order of the code
first_error(bind, prompt_error, st, oracle) ==
    IF bind = "raise" THEN BindError
    ELSE IF prompt_error # "none" THEN prompt_error
    ELSE IF messages_error(st) # "none" THEN messages_error(st)
    ELSE IF oracle.kind = "raise" THEN OracleError
    ELSE "none"

\* faulty variant of finance_node: the except branch returns no message
finance_node_drops_error(st, goals, bind, oracle) ==
    LET e == first_error(bind, goals_text_error(goals), st, oracle) IN
    [messages |-> IF e = "none" THEN <<AssistantMessage(oracle.text)>> ELSE <<>>,
     error |-> e,
     tools |-> IF bind = "ok" THEN "finance_tools" ELSE "none"]

finance_node(st, goals, bind, oracle) ==
    LET e == first_error(bind, goals_text_error(goals), st, oracle) IN
    [messages |-> IF e = "none" THEN <<AssistantMessage(oracle.text)>>
                  ELSE <<AssistantMessage(FinanceErrorPrefix \o e)>>,
     error |-> e,
     tools |-> IF bind = "ok" THEN "finance_tools" ELSE "none"]

health_node(st, bind, oracle) ==
    LET e == first_error(bind, "none", st, oracle) IN
    [messages |-> IF e = "none" THEN <<AssistantMessage(oracle.text)>>
                  ELSE <<AssistantMessage(HealthErrorPrefix \o e)>>,
     error |-> e,
     tools |-> IF bind = "ok" THEN "health_tools" ELSE "none"]

\* the tool list is create_drive_tools_mock(); load_mcp_tools and
\* initialize_mcp_connection are not called
drive_node(st, bind, oracle) ==
    LET e == first_error(bind, "none", st, oracle) IN
    [messages |-> IF e = "none" THEN <<AssistantMessage(oracle.text)>>
                  ELSE <<AssistantMessage(DriveErrorPrefix \o e)>>,
     error |-> e,
     tools |-> IF bind = "ok" THEN "drive_tools_mock" ELSE "none",
     discovery |-> "not_attempted"]

general_node(st, oracle) ==
    LET e == first_error("ok", "none", st, oracle) IN
    [messages |-> IF e = "none" THEN <<AssistantMessage(oracle.text)>>
                  ELSE <<AssistantMessage(GeneralErrorPrefix \o e)>>,
     error |-> e,
     tools |-> "none"]

\* docs_node up to rag_graph.invoke: "reply" when it returns at once,
\* "error" when extracting the question raises, "invoke" with the question
\* handed to create_initial_rag_state otherwise
docs_node_question(st) ==
    IF ~st.has_messages THEN [kind |-> "error", text |-> MessagesKeyError]
    ELSE IF st.messages = <<>> THEN [kind |-> "reply", text |-> DocsNoMessagesReply]
    ELSE LET last_message == st.messages[Len(st.messages)] IN
         IF last_message.type = "dict"
         THEN [kind |-> "error", text |-> "'dict' object has no attribute 'content'"]
         ELSE IF last_message.type = "human"
         THEN [kind |-> "invoke", text |-> last_message.content.text]
         ELSE [kind |-> "invoke", text |-> PyStr(last_message.content)]

\* docs_node after rag_graph.invoke returned (run = "END") or raised
docs_node_result(run, gen) ==
    IF run = "END"
    THEN [messages |-> <<AssistantMessage(gen)>>, error |-> "none"]
    ELSE [messages |-> <<AssistantMessage(DocsErrorPrefix \o GraphRecursionErrorText)>>,
          error |-> GraphRecursionErrorText]

\* faulty variant of route_based_on_context: every turn goes to general
route_based_on_context_always_general(context) == "general"

\* state.get("current_context", "general"); the router has set the key
route_based_on_context(context) == context

\* path map of add_conditional_edges
RouteMap ==
    [finance |-> "finance", health |-> "health", docs |-> "docs",
     drive |-> "drive", general |-> "general"]

\* ---- inputs of a turn
TurnTexts == FixedTexts \cup Vocabulary

TurnInputs ==
    { [has_messages |-> TRUE, messages |-> <<>>] }
        \cup { [has_messages |-> TRUE,
                messages |-> <<[type |-> "human", content |-> [kind |-> "str", text |-> t]]>>]
               : t \in TurnTexts }
        \cup { [has_messages |-> TRUE,
                messages |-> <<EarlierMessage,
                               [type |-> "ai", content |-> [kind |-> "list", text |-> "póliza"]]>>],
               [has_messages |-> TRUE,
                messages |-> <<[type |-> "human", content |-> [kind |-> "list", text |-> "gastos"]]>>] }

\* workflow.invoke(state): START -> router
TurnInit ==
    /\ turn_pc = "router"
    /\ active_goals \in {"empty", "dict"}
    /\ handlers_run = <<>>
    /\ returned_messages = <<>>
    /\ handler_error = "none"
    /\ mcp_discovery = "not_attempted"
    /\ bound_tools = "none"
    /\ InitRouter
    /\ agent_state \in TurnInputs
    /\ RAGIdle
    /\ SearchIdle
    /\ MCPIdle
    /\ HabitIdle
    /\ AppIdle
    /\ QueryIdle
    /\ retrieve_tool \in RetrieveTools

TurnIdle ==
    /\ turn_pc = "idle"
    /\ active_goals = "empty"
    /\ handlers_run = <<>>
    /\ returned_messages = <<>>
    /\ handler_error = "none"
    /\ mcp_discovery = "not_attempted"
    /\ bound_tools = "none"

\* the router node and the conditional edge that follows it
TurnRouter ==
    /\ turn_pc = "router"
    /\ RouterNode
    /\ turn_pc' = RouteMap[route_based_on_context(current_context')]
    /\ UNCHANGED <<rag_vars, active_goals, handlers_run, returned_messages,
                   handler_error, mcp_discovery, bound_tools>>

\* a handler returned r: its messages are added to the state, handler -> END
HandlerReturns(name, r) ==
    /\ handlers_run' = Append(handlers_run, name)
    /\ returned_messages' = r.messages
    /\ handler_error' = r.error
    /\ bound_tools' = r.tools
    /\ agent_state' = [agent_state EXCEPT !.messages = @ \o r.messages]
    /\ turn_pc' = "END"

FinanceNode ==
    /\ turn_pc = "finance"
    /\ \E bind \in BindOutcomes, oracle \in HandlerOutcomes :
          HandlerReturns("finance", finance_node(agent_state, active_goals, bind, oracle))
    /\ UNCHANGED <<rag_vars, router_pc, current_context, scores, router_error,
                   active_goals, mcp_discovery>>

HealthNode ==
    /\ turn_pc = "health"
    /\ \E bind \in BindOutcomes, oracle \in HandlerOutcomes :
          HandlerReturns("health", health_node(agent_state, bind, oracle))
    /\ UNCHANGED <<rag_vars, router_pc, current_context, scores, router_error,
                   active_goals, mcp_discovery>>

DriveNode ==
    /\ turn_pc = "drive"
    /\ \E bind \in BindOutcomes, oracle \in HandlerOutcomes :
          LET r == drive_node(agent_state, bind, oracle) IN
          /\ HandlerReturns("drive", r)
          /\ mcp_discovery' = r.discovery
    /\ current_context' = "drive"
    /\ UNCHANGED <<rag_vars, router_pc, scores, router_error, active_goals>>

GeneralNode ==
    /\ turn_pc = "general"
    /\ \E oracle \in HandlerOutcomes :
          HandlerReturns("general", general_node(agent_state, oracle))
    /\ UNCHANGED <<rag_vars, router_pc, current_context, scores, router_error,
                   active_goals, mcp_discovery>>

\* docs_node from its entry to rag_graph.invoke(rag_state)
DocsNodeStart ==
    /\ turn_pc = "docs"
    /\ LET q == docs_node_question(agent_state) IN
          IF q.kind = "invoke"
          THEN /\ handlers_run' = Append(handlers_run, "docs")
               /\ question' = q.text
               /\ max_loops' = DocsMaxLoops
               /\ pc' = "retrieve"
               /\ turn_pc' = "docs_rag"
               /\ UNCHANGED <<documents, generation, loop_count, steps, decision,
                              grade_oracle, oracle_calls, retrieve_result,
                              rewrite_oracle, generate_oracle,
                              agent_state, current_context,
                              returned_messages, handler_error, bound_tools>>
          ELSE /\ HandlerReturns("docs",
                    [messages |-> <<AssistantMessage(IF q.kind = "reply" THEN q.text
                                                     ELSE DocsErrorPrefix \o q.text)>>,
                     error |-> IF q.kind = "reply" THEN "none" ELSE q.text,
                     tools |-> "none"])
               /\ current_context' = "docs"
               /\ UNCHANGED rag_vars
    /\ UNCHANGED <<router_pc, scores, router_error, active_goals, mcp_discovery>>

\* the nodes of the retrieval loop, run inside rag_graph.invoke
DocsRetrieve ==
    /\ turn_pc = "docs_rag"
    /\ RetrieveWith(tool_outcomes(retrieve_tool))
    /\ UNCHANGED <<router_vars, turn_vars, search_vars, ext_vars>>
DocsGrade == turn_pc = "docs_rag" /\ Grade /\ UNCHANGED <<router_vars, turn_vars, search_vars, ext_vars>>
DocsRewrite == turn_pc = "docs_rag" /\ Rewrite /\ UNCHANGED <<router_vars, turn_vars, search_vars, ext_vars>>
DocsGenerate == turn_pc = "docs_rag" /\ Generate /\ UNCHANGED <<router_vars, turn_vars, search_vars, ext_vars>>
DocsGraphRecursionError ==
    turn_pc = "docs_rag" /\ GraphRecursionError /\ UNCHANGED <<router_vars, turn_vars, search_vars, ext_vars>>

\* docs_node from the return of rag_graph.invoke to its own return
DocsNodeFinish ==
    /\ turn_pc = "docs_rag"
    /\ pc \in {"END", "error"}
    /\ LET r == docs_node_result(pc, generation) IN
          /\ returned_messages' = r.messages
          /\ handler_error' = r.error
          /\ agent_state' = [agent_state EXCEPT !.messages = @ \o r.messages]
    /\ current_context' = "docs"
    /\ turn_pc' = "END"
    /\ UNCHANGED <<rag_vars, router_pc, scores, router_error, active_goals,
                   handlers_run, mcp_discovery, bound_tools>>

-----------------------------------------------------------------------------
(* MCP client manager and tool discovery: src/src/tools/drive_mcp.py       *)

\* calls into drive_mcp made in one process
MaxMcpCalls == 4

ServerUrls == {"http://localhost:3000", "http://drive.local:3000"}

\* MultiServerMCPClient(mcp_config): the constructor returns or raises
ConstructorOutcomes == {"ok", "raise"}

\* await self._client.close(): returns or raises
CloseOutcomes == {"ok", "raise"}

\* await client.get_tools(): the operations the server advertises, or raises
GetToolsOutcomes ==
    { [kind |-> "tools", tools |-> <<"search_files", "list_files", "read_file">>],
      [kind |-> "tools", tools |-> <<>>],
      [kind |-> "raise", tools |-> <<>>] }

\* the names of the tools create_drive_tools_mock returns
create_drive_tools_mock == <<"list_drive_files", "read_drive_file">>

\* executing the module body of drive_mcp.py: the except ImportError branch
\* only sets MCP_AVAILABLE = False, and the class body of MCPClientManager
\* then evaluates the annotation Optional[MultiServerMCPClient], a name that
\* was never bound (the cached bytecode is CPython 3.11, which evaluates
\* annotations when the class body runs)
import_drive_mcp(available) ==
    IF available THEN "ok" ELSE "NameError"

\* faulty variant of __new__: every call allocates a manager
new_manager_always_allocates(instance, allocated) ==
    [instance |-> allocated + 1, allocated |-> allocated + 1]

\* MCPClientManager(): __new__ allocates the object on the first call only
new_manager(instance, allocated) ==
    IF instance = 0
    THEN [instance |-> allocated + 1, allocated |-> allocated + 1]
    ELSE [instance |-> instance, allocated |-> allocated]

\* the manager's fields together with the number of clients constructed
Manager == [client |-> manager_client, server_url |-> manager_server_url,
            created |-> clients_created]

\* faulty variant of connect: an existing client is never reused
connect_always_creates(mgr, available, server_url, ctor) ==
    IF ~available
    THEN [mgr |-> mgr, outcome |-> "ValueError", client |-> 0]
    ELSE IF ctor = "ok"
    THEN [mgr |-> [client |-> mgr.created + 1, server_url |-> server_url,
                   created |-> mgr.created + 1],
          outcome |-> "returned", client |-> mgr.created + 1]
    ELSE [mgr |-> mgr, outcome |-> "raised", client |-> 0]

\* MCPClientManager.connect(server_url): the manager afterwards, and what
\* the caller gets
connect(mgr, available, server_url, ctor) ==
    IF ~available
    THEN [mgr |-> mgr, outcome |-> "ValueError", client |-> 0]
    ELSE IF mgr.client # 0 /\ mgr.server_url = server_url
    THEN [mgr |-> mgr, outcome |-> "returned", client |-> mgr.client]
    ELSE IF ctor = "ok"
    THEN [mgr |-> [client |-> mgr.created + 1, server_url |-> server_url,
                   created |-> mgr.created + 1],
          outcome |-> "returned", client |-> mgr.created + 1]
    ELSE [mgr |-> mgr, outcome |-> "raised", client |-> 0]

\* MCPClientManager.disconnect(): an exception of close() is logged, the
\* finally branch clears both fields
disconnect(mgr, close) ==
    IF mgr.client # 0
    THEN [mgr EXCEPT !.client = 0, !.server_url = NoUrl]
    ELSE mgr

\* load_mcp_tools(server_url): connect, then client.get_tools()
load_mcp_tools(mgr, available, server_url, ctor, got) ==
    IF ~available
    THEN [mgr |-> mgr, outcome |-> "ValueError", client |-> 0, tools |-> <<>>,
          discovery |-> "library_unavailable"]
    ELSE LET c == connect(mgr, available, server_url, ctor) IN
         IF c.outcome # "returned"
         THEN [mgr |-> c.mgr, outcome |-> c.outcome, client |-> 0, tools |-> <<>>,
               discovery |-> "connection_error"]
         ELSE IF got.kind = "raise"
         THEN [mgr |-> c.mgr, outcome |-> "raised", client |-> c.client,
               tools |-> <<>>, discovery |-> "get_tools_error"]
         ELSE [mgr |-> c.mgr, outcome |-> "returned", client |-> c.client,
               tools |-> got.tools, discovery |-> "succeeded"]

\* initialize_mcp_connection(server_url, fallback_to_mock)
initialize_mcp_connection(mgr, available, server_url, fallback_to_mock, ctor, got) ==
    LET r == load_mcp_tools(mgr, available, server_url, ctor, got) IN
    IF r.outcome = "returned" THEN r
    ELSE IF fallback_to_mock
    THEN [r EXCEPT !.outcome = "returned", !.tools = create_drive_tools_mock]
    ELSE r

\* a fresh process: nothing imported, no manager, no client
InitMCP ==
    /\ MCP_AVAILABLE \in BOOLEAN
    /\ manager_instance = 0
    /\ manager_client = 0
    /\ manager_server_url = NoUrl
    /\ instances_created = 0
    /\ clients_created = 0
    /\ mcp_calls = 0
    /\ mcp_last = NoMcpCall

\* what a caller gets when the import of drive_mcp raised: nothing of the
\* module runs
ImportFailed(op, server_url, fallback_to_mock) ==
    /\ mcp_last' = [op |-> op, server_url |-> server_url,
                    fallback_to_mock |-> fallback_to_mock, manager |-> 0,
                    outcome |-> import_drive_mcp(MCP_AVAILABLE), client |-> 0,
                    tools |-> <<>>, discovery |-> "library_unavailable"]
    /\ UNCHANGED <<manager_instance, manager_client, manager_server_url,
                   instances_created, clients_created>>

\* from src.tools.drive_mcp import MCPClientManager; MCPClientManager()
NewManager ==
    /\ mcp_calls \in 0..(MaxMcpCalls - 1)
    /\ mcp_calls' = mcp_calls + 1
    /\ IF import_drive_mcp(MCP_AVAILABLE) # "ok"
       THEN ImportFailed("manager", NoUrl, FALSE)
       ELSE LET m == new_manager(manager_instance, instances_created) IN
            /\ manager_instance' = m.instance
            /\ instances_created' = m.allocated
            /\ mcp_last' = [NoMcpCall EXCEPT !.op = "manager", !.manager = m.instance,
                                             !.outcome = "returned"]
            /\ UNCHANGED <<manager_client, manager_server_url, clients_created>>
    /\ UNCHANGED MCP_AVAILABLE

\* await MCPClientManager().connect(server_url)
Connect ==
    /\ mcp_calls \in 0..(MaxMcpCalls - 1)
    /\ mcp_calls' = mcp_calls + 1
    /\ \E server_url \in ServerUrls, ctor \in ConstructorOutcomes :
          IF import_drive_mcp(MCP_AVAILABLE) # "ok"
          THEN ImportFailed("connect", server_url, FALSE)
          ELSE LET m == new_manager(manager_instance, instances_created)
                   c == connect(Manager, MCP_AVAILABLE, server_url, ctor) IN
               /\ manager_instance' = m.instance
               /\ instances_created' = m.allocated
               /\ manager_client' = c.mgr.client
               /\ manager_server_url' = c.mgr.server_url
               /\ clients_created' = c.mgr.created
               /\ mcp_last' = [NoMcpCall EXCEPT !.op = "connect",
                                                !.server_url = server_url,
                                                !.manager = m.instance,
                                                !.outcome = c.outcome,
                                                !.client = c.client]
    /\ UNCHANGED MCP_AVAILABLE

\* await MCPClientManager().disconnect()
Disconnect ==
    /\ mcp_calls \in 0..(MaxMcpCalls - 1)
    /\ mcp_calls' = mcp_calls + 1
    /\ \E close \in CloseOutcomes :
          IF import_drive_mcp(MCP_AVAILABLE) # "ok"
          THEN ImportFailed("disconnect", NoUrl, FALSE)
          ELSE LET m == new_manager(manager_instance, instances_created)
                   d == disconnect(Manager, close) IN
               /\ manager_instance' = m.instance
               /\ instances_created' = m.allocated
               /\ manager_client' = d.client
               /\ manager_server_url' = d.server_url
               /\ clients_created' = d.created
               /\ mcp_last' = [NoMcpCall EXCEPT !.op = "disconnect",
                                                !.manager = m.instance,
                                                !.outcome = "returned"]
    /\ UNCHANGED MCP_AVAILABLE

\* await initialize_mcp_connection(server_url, fallback_to_mock)
InitializeMcpConnection ==
    /\ mcp_calls \in 0..(MaxMcpCalls - 1)
    /\ mcp_calls' = mcp_calls + 1
    /\ \E server_url \in ServerUrls, fallback_to_mock \in BOOLEAN,
          ctor \in ConstructorOutcomes, got \in GetToolsOutcomes :
          IF import_drive_mcp(MCP_AVAILABLE) # "ok"
          THEN ImportFailed("initialize", server_url, fallback_to_mock)
          ELSE LET m == new_manager(manager_instance, instances_created)
                   r == initialize_mcp_connection(Manager, MCP_AVAILABLE, server_url,
                                                  fallback_to_mock, ctor, got) IN
               /\ manager_instance' = m.instance
               /\ instances_created' = m.allocated
               /\ manager_client' = r.mgr.client
               /\ manager_server_url' = r.mgr.server_url
               /\ clients_created' = r.mgr.created
               /\ mcp_last' = [op |-> "initialize", server_url |-> server_url,
                               fallback_to_mock |-> fallback_to_mock,
                               manager |-> m.instance, outcome |-> r.outcome,
                               client |-> r.client, tools |-> r.tools,
                               discovery |-> r.discovery]
    /\ UNCHANGED MCP_AVAILABLE

-----------------------------------------------------------------------------
(* Habit log: log_habit of src/src/tools/health.py                         *)

\* log_habit calls made in one process
MaxHabitCalls == 2

\* last calendar day reached, counted from Monday 2025-12-01 (day 0)
MaxDay == 7

\* the day of the latest check-in of the mock data, 2025-12-04
FirstDay == 3

UserIds == {"user_123", "user_456"}
HabitNames == {"gym", "sleep", "water", "yoga"}
AdditionalInfos == {"", "45 minutes"}

valid_habits == <<"gym", "reading", "meditation", "sleep", "water", "coding">>

\* a check-in is the date string itself, or a dict that holds it under "date"
DateCheckIn(day) == [kind |-> "str", date |-> day, info |-> ""]
DictCheckIn(day, info) == [kind |-> "dict", date |-> day, info |-> info]

\* a key a milestone dict does not hold
NoKey == -1

\* MOCK_DB as the module defines it; of a milestone only the two keys
\* log_habit reads and writes are kept
InitialMockDb ==
    [u \in {"user_123"} |->
        [habits |->
            [h \in {"gym", "reading", "meditation", "sleep"} |->
                IF h = "gym"
                THEN [target |-> 3,
                      check_ins |-> <<DateCheckIn(0), DateCheckIn(2), DateCheckIn(3)>>]
                ELSE IF h = "reading"
                THEN [target |-> 4,
                      check_ins |-> <<DictCheckIn(0, ""), DictCheckIn(14, "")>>]
                ELSE IF h = "meditation"
                THEN [target |-> 5,
                      check_ins |-> <<DateCheckIn(0), DateCheckIn(1), DateCheckIn(2)>>]
                ELSE [target |-> 8,
                      check_ins |-> <<DictCheckIn(0, ""), DictCheckIn(1, ""),
                                      DictCheckIn(2, "")>>]],
         milestones |->
            [h \in {"gym", "reading", "meditation"} |->
                IF h = "gym" THEN [streak_current |-> 2, streak_best |-> 7]
                ELSE [streak_current |-> NoKey, streak_best |-> NoKey]]]]

\* d[k] = v on a dict d, adding the key when it is missing
DictSet(d, k, v) == [x \in (DOMAIN d) \cup {k} |-> IF x = k THEN v ELSE d[x]]

InSeq(x, seq) == \E i \in 1..Len(seq) : seq[i] = x

\* _get_user_db: the user's entry, created empty when missing
get_user_db(db, user_id) ==
    IF user_id \in DOMAIN db THEN db
    ELSE DictSet(db, user_id, [habits |-> <<>>, milestones |-> <<>>])

\* _get_week_start: the Monday of the week of the given day
get_week_start(day) == day - (day % 7)

\* _count_week_check_ins
RECURSIVE count_week_check_ins(_, _)
count_week_check_ins(check_ins, day) ==
    IF check_ins = <<>> THEN 0
    ELSE (IF Head(check_ins).date >= get_week_start(day) THEN 1 ELSE 0)
         + count_week_check_ins(Tail(check_ins), day)

\* the dates the duplicate test of log_habit collects
check_in_dates(check_ins) == { check_ins[i].date : i \in 1..Len(check_ins) }

Max(a, b) == IF a >= b THEN a ELSE b

\* the first line of the text log_habit returns on success, and its other
\* fixed replies (the source puts a symbol in front of each)
LoggedText(habit_name) == habit_name \o " logged!"
AlreadyLoggedText(habit_name) ==
    "You've already logged " \o habit_name \o " today! One entry per day."
InvalidHabitText(habit_name) == "Invalid habit '" \o habit_name \o "'."

\* the state log_habit leaves and the reply it returns once the habit is
\* known not to be logged today: append, recount, update the milestone
record_check_in(db, user_id, habit_name, additional_info, day) ==
    LET user_db == db[user_id]
        habit == user_db.habits[habit_name]
        check_in == IF additional_info # "" THEN DictCheckIn(day, additional_info)
                    ELSE DateCheckIn(day)
        check_ins == Append(habit.check_ins, check_in)
        week_count == count_week_check_ins(check_ins, day)
        milestone == IF habit_name \in DOMAIN user_db.milestones
                     THEN user_db.milestones[habit_name]
                     ELSE [streak_current |-> 1, streak_best |-> 1]
        best == IF milestone.streak_best = NoKey THEN 0 ELSE milestone.streak_best
        updated == [streak_current |-> week_count, streak_best |-> Max(best, week_count)]
    IN  [db |-> DictSet(db, user_id,
                    [habits |-> DictSet(user_db.habits, habit_name,
                                        [habit EXCEPT !.check_ins = check_ins]),
                     milestones |-> DictSet(user_db.milestones, habit_name, updated)]),
         kind |-> "logged", text |-> LoggedText(habit_name)]

\* the user's entry with the habit created empty when missing
with_habit(db, user_id, habit_name) ==
    IF habit_name \in DOMAIN db[user_id].habits THEN db
    ELSE DictSet(db, user_id,
             [db[user_id] EXCEPT !.habits =
                 DictSet(db[user_id].habits, habit_name,
                         [target |-> 3, check_ins |-> <<>>])])

\* faulty variant of log_habit: no test for a check-in of the same day
log_habit_no_duplicate_test(db0, user_id, habit_name, additional_info, day) ==
    LET db1 == get_user_db(db0, user_id) IN
    IF ~InSeq(habit_name, valid_habits)
    THEN [db |-> db1, kind |-> "invalid", text |-> InvalidHabitText(habit_name)]
    ELSE record_check_in(with_habit(db1, user_id, habit_name), user_id, habit_name,
                         additional_info, day)

\* log_habit(user_id, habit_name, additional_info) on the day `day`
log_habit(db0, user_id, habit_name, additional_info, day) ==
    LET db1 == get_user_db(db0, user_id)
        db2 == with_habit(db1, user_id, habit_name)
    IN  IF ~InSeq(habit_name, valid_habits)
        THEN [db |-> db1, kind |-> "invalid", text |-> InvalidHabitText(habit_name)]
        ELSE IF day \in check_in_dates(db2[user_id].habits[habit_name].check_ins)
        THEN [db |-> db2, kind |-> "already", text |-> AlreadyLoggedText(habit_name)]
        ELSE record_check_in(db2, user_id, habit_name, additional_info, day)

\* the module as imported, on the day of the latest check-in of the mock
\* data or on the Sunday that follows
InitHabit ==
    /\ MOCK_DB = InitialMockDb
    /\ today \in {FirstDay, FirstDay + 3}
    /\ habit_calls = 0
    /\ logged_ok = {}
    /\ last_log = NoLog

LogHabit ==
    /\ habit_calls \in 0..(MaxHabitCalls - 1)
    /\ \E user_id \in UserIds, habit_name \in HabitNames,
          additional_info \in AdditionalInfos :
          LET r == log_habit(MOCK_DB, user_id, habit_name, additional_info, today) IN
          /\ MOCK_DB' = r.db
          /\ last_log' = [user_id |-> user_id, habit_name |-> habit_name,
                          additional_info |-> additional_info,
                          kind |-> r.kind, text |-> r.text]
          /\ logged_ok' = IF r.kind = "logged"
                          THEN logged_ok \cup {<<user_id, habit_name, today>>}
                          ELSE logged_ok
    /\ habit_calls' = habit_calls + 1
    /\ UNCHANGED today

\* midnight passes: datetime.now() falls on the next day
NextDay ==
    /\ habit_calls >= 0
    /\ today < MaxDay
    /\ today' = today + 1
    /\ UNCHANGED <<MOCK_DB, habit_calls, logged_ok, last_log>>

-----------------------------------------------------------------------------
(* Chat session of the web app: src/app.py                                 *)

\* chat inputs handled in one session
MaxChatTurns == 3

\* st.chat_input returns a non-empty text
UserInputs == {"hola", "gastos del mes"}

\* what workflow.invoke(current_state) may do: return the state in which the
\* handler's one reply follows the input messages (the reply of a tool call
\* has empty content), or raise
InvokeOutcomes ==
    { [kind |-> "returned", text |-> "Claro, te ayudo."],
      [kind |-> "returned", text |-> ""],
      [kind |-> "raised", text |-> ""] }

HumanMessage(text) == [type |-> "human", content |-> [kind |-> "str", text |-> text]]

VisibleMessage(role, text) == [role |-> role, content |-> text]

\* faulty variant of the state preparation: the message list is copied too
prepare_state_copies_list(lists, state, human_msg) ==
    [lists |-> Append(lists, Append(lists[state.messages], human_msg)),
     current_state |-> [messages |-> Len(lists) + 1]]

\* current_state = agent_state.copy(); current_state["messages"].append(...):
\* dict.copy() is shallow, the copy holds the same list object, so the
\* append is made on the list of st.session_state.agent_state as well
prepare_state(lists, state, human_msg) ==
    [lists |-> [lists EXCEPT ![state.messages] = Append(@, human_msg)],
     current_state |-> [messages |-> state.messages]]

\* result = workflow.invoke(current_state): the graph builds a new list from
\* the input messages and the reply; the input list is left as it is
workflow_invoke(lists, current_state, outcome) ==
    [lists |-> Append(lists, Append(lists[current_state.messages],
                                    AssistantMessage(outcome.text))),
     result |-> [messages |-> Len(lists) + 1]]

\* session state after initialisation: agent_state from
\* create_initial_state (messages=[]), no visible message
InitApp ==
    /\ list_objects = << <<>> >>
    /\ session_agent_state = [messages |-> 1]
    /\ session_messages = <<>>
    /\ chat_turns = 0
    /\ last_invoke = "none"

\* the body of `if user_input:` up to st.rerun()
ChatTurn ==
    /\ chat_turns \in 0..(MaxChatTurns - 1)
    /\ chat_turns' = chat_turns + 1
    /\ \E user_input \in UserInputs, outcome \in InvokeOutcomes :
          LET shown == Append(session_messages, VisibleMessage("user", user_input))
              p == prepare_state(list_objects, session_agent_state,
                                 HumanMessage(user_input))
              w == workflow_invoke(p.lists, p.current_state, outcome)
          IN  IF outcome.kind = "raised"
              THEN /\ list_objects' = p.lists
                   /\ session_messages' = shown
                   /\ last_invoke' = "raised"
                   /\ UNCHANGED session_agent_state
              ELSE /\ list_objects' = w.lists
                   /\ session_agent_state' = w.result
                   /\ session_messages' =
                         Append(shown, VisibleMessage("assistant", outcome.text))
                   /\ last_invoke' = "returned"

-----------------------------------------------------------------------------
(* The query the nodes of the retrieval loop work on: src/src/rag/graph.py *)

\* faulty variant of node_question: rewrite_node reformulates the question
\* the run was started with
node_question_keeps_original(node, initial, current) ==
    IF node = "rewrite" THEN initial ELSE current

\* the question a node works on: each node reads state["question"], and
\* RAGState has no other field that holds a question
node_question(node, initial, current) == current

\* the query the latest answered rewrite produced
latest_rewrite(previous, outcome, new_question) ==
    IF outcome.kind = "reply" THEN [done |-> TRUE, question |-> new_question]
    ELSE previous

\* rag_graph.invoke(create_initial_rag_state(question, max_loops=3))
QueryInit ==
    /\ InitRAG
    /\ max_loops = DocsMaxLoops
    /\ initial_question = question
    /\ rewritten = NoRewrite
    /\ node_input = NoNode
    /\ RouterIdle
    /\ TurnIdle
    /\ SearchIdle
    /\ MCPIdle
    /\ HabitIdle
    /\ AppIdle
    /\ NoToolWired

NodeReads(node) ==
    node_input' = [node |-> node,
                   question |-> node_question(node, initial_question, question)]

QueryOthers == <<router_vars, turn_vars, search_vars, mcp_vars, habit_vars, app_vars,
                 retrieve_tool>>

QueryRetrieve ==
    /\ Retrieve
    /\ NodeReads("retrieve")
    /\ UNCHANGED <<initial_question, rewritten, QueryOthers>>

QueryGrade ==
    /\ Grade
    /\ NodeReads("grade")
    /\ UNCHANGED <<initial_question, rewritten, QueryOthers>>

\* rewrite_node is asked to reformulate the question it read
QueryRewrite ==
    /\ pc = "rewrite"
    /\ steps < RecursionLimit
    /\ \E outcome \in OracleOutcomes(RewriteReplies) :
          LET asked == node_question("rewrite", initial_question, question)
              r == rewrite_node(asked, loop_count, outcome) IN
          /\ question' = r.question
          /\ loop_count' = r.loop_count
          /\ rewrite_oracle' = outcome
          /\ rewritten' = latest_rewrite(rewritten, outcome, r.question)
    /\ oracle_calls' = oracle_calls + 1
    /\ steps' = steps + 1
    /\ pc' = "retrieve"
    /\ NodeReads("rewrite")
    /\ UNCHANGED <<documents, generation, max_loops, decision, grade_oracle,
                   retrieve_result, generate_oracle>>
    /\ UNCHANGED <<initial_question, QueryOthers>>

QueryGenerate ==
    /\ Generate
    /\ NodeReads("generate")
    /\ UNCHANGED <<initial_question, rewritten, QueryOthers>>

QueryGraphRecursionError ==
    /\ GraphRecursionError
    /\ UNCHANGED <<query_vars, QueryOthers>>

-----------------------------------------------------------------------------
(* Specifications                                                          *)

\* one run of the compiled RAG graph
Init == InitRAG /\ RouterIdle /\ TurnIdle /\ SearchIdle /\ ExtIdle

Next ==
    \/ Retrieve /\ UNCHANGED <<router_vars, turn_vars, search_vars, ext_vars>>
    \/ Grade /\ UNCHANGED <<router_vars, turn_vars, search_vars, ext_vars>>
    \/ Rewrite /\ UNCHANGED <<router_vars, turn_vars, search_vars, ext_vars>>
    \/ Generate /\ UNCHANGED <<router_vars, turn_vars, search_vars, ext_vars>>
    \/ GraphRecursionError /\ UNCHANGED <<router_vars, turn_vars, search_vars, ext_vars>>

Spec == Init /\ [][Next]_vars

\* one call of router_node
NextRouter == RouterNode /\ UNCHANGED <<rag_vars, turn_vars, search_vars, ext_vars>>

RouterInit == InitRouter /\ RAGIdle /\ TurnIdle /\ SearchIdle /\ ExtIdle

SpecRouter == RouterInit /\ [][NextRouter]_vars

\* one invoke() of the graph build_workflow returns
NextTurn ==
    \/ TurnRouter /\ UNCHANGED <<search_vars, ext_vars>>
    \/ FinanceNode /\ UNCHANGED <<search_vars, ext_vars>>
    \/ HealthNode /\ UNCHANGED <<search_vars, ext_vars>>
    \/ DriveNode /\ UNCHANGED <<search_vars, ext_vars>>
    \/ GeneralNode /\ UNCHANGED <<search_vars, ext_vars>>
    \/ DocsNodeStart /\ UNCHANGED <<search_vars, ext_vars>>
    \/ DocsRetrieve
    \/ DocsGrade
    \/ DocsRewrite
    \/ DocsGenerate
    \/ DocsGraphRecursionError
    \/ DocsNodeFinish /\ UNCHANGED <<search_vars, ext_vars>>

SpecTurn == TurnInit /\ [][NextTurn]_vars

\* a sequence of calls of _search_documents
NextSearch == Search /\ UNCHANGED <<rag_vars, router_vars, turn_vars, ext_vars>>

SearchInit == InitSearch /\ RAGIdle /\ RouterIdle /\ TurnIdle /\ ExtIdle

SpecSearch == SearchInit /\ [][NextSearch]_vars

\* a sequence of calls into drive_mcp in one process
NextMCP ==
    \/ NewManager /\ UNCHANGED <<rag_vars, router_vars, turn_vars, search_vars, habit_vars, app_vars, retrieve_tool, query_vars>>
    \/ Connect /\ UNCHANGED <<rag_vars, router_vars, turn_vars, search_vars, habit_vars, app_vars, retrieve_tool, query_vars>>
    \/ Disconnect /\ UNCHANGED <<rag_vars, router_vars, turn_vars, search_vars, habit_vars, app_vars, retrieve_tool, query_vars>>
    \/ InitializeMcpConnection /\ UNCHANGED <<rag_vars, router_vars, turn_vars, search_vars, habit_vars, app_vars, retrieve_tool, query_vars>>

MCPInit == InitMCP /\ RAGIdle /\ RouterIdle /\ TurnIdle /\ SearchIdle /\ HabitIdle /\ AppIdle /\ NoToolWired /\ QueryIdle

SpecMCP == MCPInit /\ [][NextMCP]_vars

\* a sequence of log_habit calls, with days passing in between
NextHabit ==
    \/ LogHabit /\ UNCHANGED <<rag_vars, router_vars, turn_vars, search_vars, mcp_vars, app_vars, retrieve_tool, query_vars>>
    \/ NextDay /\ UNCHANGED <<rag_vars, router_vars, turn_vars, search_vars, mcp_vars, app_vars, retrieve_tool, query_vars>>

HabitInit == InitHabit /\ RAGIdle /\ RouterIdle /\ TurnIdle /\ SearchIdle /\ MCPIdle /\ AppIdle /\ NoToolWired /\ QueryIdle

SpecHabit == HabitInit /\ [][NextHabit]_vars

\* a chat session: one turn per chat input
NextApp ==
    ChatTurn /\ UNCHANGED <<rag_vars, router_vars, turn_vars, search_vars, mcp_vars, habit_vars, retrieve_tool, query_vars>>

AppInit == InitApp /\ RAGIdle /\ RouterIdle /\ TurnIdle /\ SearchIdle /\ MCPIdle /\ HabitIdle /\ NoToolWired /\ QueryIdle

SpecApp == AppInit /\ [][NextApp]_vars

\* one run of the compiled RAG graph as docs_node starts it, with the
\* question each node reads
NextQuery ==
    \/ QueryRetrieve
    \/ QueryGrade
    \/ QueryRewrite
    \/ QueryGenerate
    \/ QueryGraphRecursionError

SpecQuery == QueryInit /\ [][NextQuery]_vars

-----------------------------------------------------------------------------
(* Properties of the retrieval loop (specification Spec)                   *)

\* C1: in every reachable state of a run of the compiled RAG graph started
\* with max_loops >= 0, loop_count <= max_loops.
C1_LoopCountWithinLimit ==
    loop_count <= max_loops

\* C2: once loop_count has reached max_loops the node that follows Retrieve
\* (and its grading) is Generate even when Grade answers "rewrite", and
\* Rewrite is entered only when Grade chose "rewrite" and loop_count < max_loops.
C2_ForcedGenerateAtLimit ==
    [][ /\ (pc = "grade" /\ loop_count >= max_loops) => pc' = "generate"
        /\ (pc = "grade" /\ pc' = "rewrite") =>
               (decision' = "rewrite" /\ loop_count < max_loops) ]_vars

\* C3: every run that ends has ended in Generate (never aborted by the graph
\* runtime) and has performed at most max_loops Rewrite steps; loop_count
\* counts the Rewrite steps of the run.
C3_RunEndsInGenerateWithinLimit ==
    pc \in {"END", "error"} => (pc = "END" /\ loop_count <= max_loops)

\* the reply, lower-cased, has "yes" as a substring: some window of three
\* characters reads y-e-s in any letter case
HasYes(text) ==
    \E i \in 1..(Len(text) - 2) :
        /\ CharAt(text, i) \in {"y", "Y"}
        /\ CharAt(text, i + 1) \in {"e", "E"}
        /\ CharAt(text, i + 2) \in {"s", "S"}

\* C8: for a non-empty document list and an oracle call that succeeds,
\* grade_node returns "generate" if and only if the reply, lower-cased,
\* contains "yes", and "rewrite" otherwise; "No, not relevant." gives
\* "rewrite" and "Yes" gives "generate".
C8_GradeDecisionIsYesSubstring ==
    [][ (pc = "grade" /\ documents # <<>> /\ grade_oracle'.kind = "reply") =>
            /\ decision' = (IF HasYes(grade_oracle'.text) THEN "generate" ELSE "rewrite")
            /\ grade_oracle'.text = "No, not relevant." => decision' = "rewrite"
            /\ grade_oracle'.text = "Yes" => decision' = "generate" ]_vars

C8_Witness ==
    /\ grade_oracle = [kind |-> "reply", text |-> "No, not relevant."]
    /\ decision = "rewrite"
    /\ pc = "rewrite"

\* C9: when Retrieve produced an empty document list, Grade returns
\* "generate" without issuing an oracle call, so the node after Retrieve is
\* Generate and not Rewrite.
C9_EmptyDocumentsSkipOracle ==
    [][ (pc = "grade" /\ documents = <<>>) =>
            /\ decision' = "generate"
            /\ pc' = "generate"
            /\ oracle_calls' = oracle_calls
            /\ grade_oracle' = NotCalled ]_vars

C9_Witness ==
    /\ pc = "generate"
    /\ documents = <<>>
    /\ decision = "generate"
    /\ grade_oracle = NotCalled
    /\ oracle_calls = 0
    /\ steps = 1

\* C10: if the oracle call made by Grade raises, grade_node returns
\* "generate" and the run does not go to Rewrite.
C10_GradeFailsOpen ==
    grade_oracle.kind = "raise" => (decision = "generate" /\ pc # "rewrite")

C10_Witness ==
    /\ grade_oracle.kind = "raise"
    /\ documents # <<>>
    /\ decision = "generate"
    /\ pc = "generate"

\* reply with its surrounding whitespace removed is t: t is a slice of reply,
\* all characters around the slice are whitespace and t neither begins nor
\* ends with whitespace
IsTrimOf(t, reply) ==
    /\ \E i \in 1..(Len(reply) + 1) :
          /\ i + Len(t) - 1 <= Len(reply)
          /\ SubSeq(reply, i, i + Len(t) - 1) = t
          /\ \A k \in 1..(i - 1) : CharAt(reply, k) \in Whitespace
          /\ \A k \in (i + Len(t))..Len(reply) : CharAt(reply, k) \in Whitespace
    /\ Len(t) > 0 => (CharAt(t, 1) \notin Whitespace /\ CharAt(t, Len(t)) \notin Whitespace)

\* C11: a Rewrite whose oracle call succeeds sets the working query to the
\* reply with surrounding whitespace stripped and adds exactly 1 to
\* loop_count; only Rewrite changes loop_count, which never decreases.
C11_RewriteSetsQueryAndCounts ==
    [][ /\ (pc = "rewrite" /\ pc' = "retrieve" /\ rewrite_oracle'.kind = "reply") =>
               (IsTrimOf(question', rewrite_oracle'.text) /\ loop_count' = loop_count + 1)
        /\ loop_count' >= loop_count
        /\ loop_count' # loop_count => (pc = "rewrite" /\ pc' = "retrieve") ]_vars

C11_Witness ==
    /\ pc = "retrieve"
    /\ rewrite_oracle = [kind |-> "reply", text |-> " seguro de auto \n"]
    /\ question = "seguro de auto"
    /\ loop_count = 1

\* C12: if the oracle call made by Rewrite raises, the working query stays
\* exactly as it was and loop_count still grows by exactly 1.
C12_RewriteFailureKeepsQuery ==
    [][ (pc = "rewrite" /\ pc' = "retrieve" /\ rewrite_oracle'.kind = "raise") =>
            (question' = question /\ loop_count' = loop_count + 1) ]_vars

C12_Witness ==
    /\ pc = "retrieve"
    /\ rewrite_oracle.kind = "raise"
    /\ question = "insurance policy coverage"
    /\ loop_count = 1

\* C13: whenever Generate runs with an empty document list it sets generation
\* to the fixed no-documents message, whatever the query and loop_count are,
\* and issues no oracle call.
C13_NoDocumentsMessage ==
    [][ (pc = "generate" /\ documents = <<>> /\ pc' = "END") =>
            /\ generation' = NoDocumentsMessage
            /\ oracle_calls' = oracle_calls
            /\ generate_oracle' = NoDocuments ]_vars

C13_Witness ==
    /\ pc = "END"
    /\ documents = <<>>
    /\ question = "póliza"
    /\ loop_count = 1
    /\ generation = NoDocumentsMessage
    /\ generate_oracle = NoDocuments

StartsWith(s, prefix) ==
    Len(s) >= Len(prefix) /\ SubSeq(s, 1, Len(prefix)) = prefix

\* C14: if the oracle call made by Generate raises, generation is an
\* explicit error string; every run that reaches the end of the loop has
\* generation assigned by Generate: the no-documents message, the oracle's
\* answer or the error string.
C14_GenerationAlwaysAssigned ==
    /\ generate_oracle.kind = "raise" =>
           (pc = "END" /\ generation = "Error generando respuesta: Connection error.")
    /\ pc = "END" =>
           /\ generate_oracle.kind \in {"nodocs", "reply", "nontext", "raise"}
           /\ generate_oracle.kind = "nodocs" => generation = NoDocumentsMessage
           /\ generate_oracle.kind = "reply" => IsTrimOf(generation, generate_oracle.text)
           /\ generate_oracle.kind \in {"nontext", "raise"} =>
                  StartsWith(generation, "Error generando respuesta: ")

C14_Witness ==
    /\ pc = "END"
    /\ documents # <<>>
    /\ generate_oracle.kind = "raise"
    /\ generation = "Error generando respuesta: Connection error."

DocumentLists == { o.docs : o \in { t \in ToolOutcomes : t.kind = "list" } }

\* C15: retrieve_node lets no exception escape: for any query (empty or
\* non-matching included) and any failure of the retrieve tool the run goes
\* on to grading with a document list, and on an internal error that list
\* is empty.
C15_RetrieveNeverRaises ==
    [][ pc = "retrieve" =>
            /\ pc' \in {"grade", "error"}
            /\ pc' = "grade" =>
                   /\ documents' \in DocumentLists
                   /\ retrieve_result' \in {"raise", "text"} => documents' = <<>> ]_vars

C15_Witness ==
    /\ pc = "grade"
    /\ retrieve_result = "raise"
    /\ documents = <<>>
    /\ question = ""
    /\ steps = 1

-----------------------------------------------------------------------------
(* Properties of the router (specification SpecRouter)                     *)

LastMessage == agent_state.messages[Len(agent_state.messages)]

HasLastMessage == agent_state.has_messages /\ agent_state.messages # <<>>

\* C4: for every message history router_node returns a current_context in
\* the fixed category set; for an empty history it returns "general" and
\* computes no keyword score.
C4_RouterReturnsCategory ==
    router_pc = "returned" =>
        /\ current_context \in Categories
        /\ (agent_state.has_messages /\ agent_state.messages = <<>>) =>
               (current_context = "general" /\ scores = NoScores)

C4_Witness ==
    /\ router_pc = "returned"
    /\ agent_state = [has_messages |-> TRUE, messages |-> <<>>]
    /\ current_context = "general"
    /\ scores = NoScores

ScoredCategories == {"drive", "finance", "health", "docs"}

Precedence == <<"drive", "finance", "health", "docs">>

TopScore(sc) == CHOOSE n \in { sc[c] : c \in ScoredCategories } :
                    \A c \in ScoredCategories : sc[c] <= n

TiedAtTop(sc) == { c \in ScoredCategories : sc[c] = TopScore(sc) }

FirstInPrecedence(cats) ==
    Precedence[CHOOSE i \in 1..Len(Precedence) :
                   /\ Precedence[i] \in cats
                   /\ \A j \in 1..(i - 1) : Precedence[j] \notin cats]

\* C5: when two or more categories share the highest positive keyword count,
\* router_node returns the tied category that comes first in the order
\* drive, finance, health, docs.
C5_TieBrokenByPrecedence ==
    (/\ router_pc = "returned"
     /\ scores # NoScores
     /\ TopScore(scores) > 0
     /\ Cardinality(TiedAtTop(scores)) >= 2)
        => current_context = FirstInPrecedence(TiedAtTop(scores))

\* C6: for a non-empty history whose last message is text, router_node
\* returns "general" if and only if all four keyword counts are zero.
C6_GeneralIffNoKeyword ==
    (/\ router_pc = "returned"
     /\ HasLastMessage
     /\ LastMessage.type # "dict"
     /\ LastMessage.content.kind = "str")
        => /\ scores # NoScores
           /\ current_context = "general" <=>
                  \A c \in ScoredCategories : scores[c] = 0

C6_Witness ==
    /\ router_pc = "returned"
    /\ HasLastMessage
    /\ LastMessage.type = "human"
    /\ LastMessage.content = [kind |-> "str", text |-> "salud póliza"]
    /\ scores = [finance |-> 0, health |-> 1, docs |-> 1, drive |-> 0]
    /\ current_context = "docs"

\* C7: if an exception is raised while router_node classifies (a last
\* message whose content is not a string, a state without a messages
\* entry), router_node still returns and the context is "general".
C7_RouterSwallowsErrors ==
    /\ router_error # "none" => (router_pc = "returned" /\ current_context = "general")
    /\ (router_pc = "returned" /\ ~agent_state.has_messages) => router_error = "KeyError"
    /\ (/\ router_pc = "returned"
        /\ HasLastMessage
        /\ LastMessage.type = "human"
        /\ LastMessage.content.kind = "list") => router_error = "AttributeError"

C7_Witness ==
    /\ router_pc = "returned"
    /\ HasLastMessage
    /\ LastMessage = [type |-> "human", content |-> [kind |-> "list", text |-> "dinero"]]
    /\ router_error = "AttributeError"
    /\ current_context = "general"

\* the queries tests/test_mcp_integration.py expects the router to send to
\* the file-access handler
DriveTestQueries ==
    { "¿Dónde están mis archivos importantes?",
      "¿Cómo descargo un archivo?",
      "Necesito acceder a Google Drive",
      "Muéstrame mi carpeta compartida" }

\* C20: messages that ask about files go to the file-access handler: a
\* message whose only keyword hit is "archivo" gets current_context "drive",
\* like the messages that name Google Drive or a folder.
C20_FileQuestionsGoToDrive ==
    (/\ router_pc = "returned"
     /\ HasLastMessage
     /\ LastMessage.type = "human"
     /\ LastMessage.content.kind = "str"
     /\ LastMessage.content.text \in DriveTestQueries)
        => current_context = "drive"

-----------------------------------------------------------------------------
(* Properties of a turn of the main graph (specification SpecTurn)         *)

ErrorPrefixOf ==
    [finance |-> FinanceErrorPrefix, health |-> HealthErrorPrefix,
     docs |-> DocsErrorPrefix, drive |-> DriveErrorPrefix,
     general |-> GeneralErrorPrefix]

\* C17: each domain handler returns exactly one assistant message; when
\* something inside the handler raised (binding the tools, building the
\* prompt, the oracle, the retrieval loop), the handler still returns, and
\* its single message is an assistant message made of the handler's error
\* prefix followed by the description of the exception.
C17_HandlerReturnsOneAssistantMessage ==
    turn_pc = "END" =>
        /\ Len(returned_messages) = 1
        /\ returned_messages[1].type = "ai"
        /\ agent_state.messages[Len(agent_state.messages)] = returned_messages[1]
        /\ handler_error # "none" =>
              returned_messages[1].content.text
                  = ErrorPrefixOf[handlers_run[1]] \o handler_error

C17_Witness ==
    /\ turn_pc = "END"
    /\ handlers_run = <<"finance">>
    /\ handler_error = BindError
    /\ returned_messages = <<AssistantMessage(FinanceErrorPrefix \o BindError)>>

\* C18: whenever drive_node has run, discovery of the operations of the
\* external tool provider was attempted in that invocation, and the mock
\* operations are bound only when that discovery failed.
C18_DriveDiscoversBeforeMock ==
    (turn_pc = "END" /\ handlers_run = <<"drive">>) =>
        /\ mcp_discovery # "not_attempted"
        /\ bound_tools = "drive_tools_mock" => mcp_discovery = "failed"

\* C19: in a turn the router runs first; the only handler entered is the one
\* named by the current_context the router returned; a finished turn has
\* run exactly one handler and takes no further step; the retrieval loop
\* runs only inside the docs handler.
C19_RouterThenOneHandlerThenEnd ==
    /\ [](router_pc = "call" => (turn_pc = "router" /\ handlers_run = <<>>))
    /\ [][handlers_run' # handlers_run =>
              /\ router_pc = "returned"
              /\ handlers_run = <<>>
              /\ handlers_run' = <<current_context>>]_vars
    /\ [](turn_pc = "END" => Len(handlers_run) = 1)
    /\ [](pc # "idle" => (current_context = "docs" /\ handlers_run = <<"docs">>))
    /\ [][turn_pc # "END"]_vars

C19_Witness ==
    /\ turn_pc = "END"
    /\ router_pc = "returned"
    /\ handlers_run = <<"docs">>
    /\ pc = "END"
    /\ returned_messages = <<AssistantMessage(generation)>>

-----------------------------------------------------------------------------
(* Properties of the document search (specification SpecSearch)            *)

-----------------------------------------------------------------------------
(* Further properties of the router (specification SpecRouter)             *)

LastIsHumanText(text) ==
    /\ HasLastMessage
    /\ LastMessage.type = "human"
    /\ LastMessage.content.kind = "str"
    /\ LastMessage.content.text = text

C28_ChosenCategoryIsNotOutscored ==
    (router_pc = "returned" /\ current_context \in ScoredCategories) =>
        /\ scores[current_context] > 0
        /\ \A c \in ScoredCategories : scores[c] <= scores[current_context]

C28_Witness ==
    /\ router_pc = "returned"
    /\ current_context = "finance"
    /\ scores.docs > 0
    /\ scores.finance > scores.docs
    /\ scores.drive > 0

-----------------------------------------------------------------------------
(* Further properties of the document search (specification SpecSearch)    *)

Searched == search_count >= 1

Min(a, b) == IF a < b THEN a ELSE b

\* number of entries of a result list that carry document id
Occurrences(results, id) == Cardinality({ i \in 1..Len(results) : results[i].doc.id = id })

\* C24: the returned list has at most top_k entries, its scores do not
\* increase from one entry to the next, and it holds the top_k best of the
\* entries the search found: min(top_k, found) entries, each taken from the
\* found ones, none scoring less than a found entry that was left out.
C24_TopKByScore ==
    Searched =>
        LET res == last_search.results
            found == last_search.candidates
        IN /\ Len(res) <= last_search.top_k
           /\ \A i \in 1..Len(res), j \in 1..Len(res) :
                 i < j => res[i].score >= res[j].score
           /\ Len(res) = Min(last_search.top_k, Len(found))
           /\ \A i \in 1..Len(res) :
                 /\ \E j \in 1..Len(found) : found[j] = res[i]
                 /\ Occurrences(res, res[i].doc.id) = 1
           /\ \A j \in 1..Len(found) :
                 Occurrences(res, found[j].doc.id) = 0 =>
                     \A i \in 1..Len(res) : res[i].score >= found[j].score

C24_Witness ==
    /\ Searched
    /\ last_search.query = "salud seguro gastos ejercicio"
    /\ last_search.top_k = MaxTopK
    /\ Len(last_search.results) = MaxTopK
    /\ Len(last_search.candidates) > MaxTopK
    /\ last_search.results # SubSeq(last_search.candidates, 1, MaxTopK)

TagEntries(results) == { i \in 1..Len(results) : results[i].reason = "tag_match" }
ContentEntries(results) == { i \in 1..Len(results) : results[i].reason = "content_match" }

\* C25: entries of the content phase exist only when the keyword phase left
\* fewer than top_k entries; each of them is a document the keyword phase did
\* not find and whose whole-content similarity exceeds the threshold; no
\* document id occurs twice, neither in the list built nor in the one
\* returned.
C25_ContentPhaseOnlyFillsUp ==
    Searched =>
        LET res == last_search.results
            found == last_search.candidates
        IN /\ ContentEntries(found) # {} =>
                 Cardinality(TagEntries(found)) < last_search.top_k
           /\ \A i \in ContentEntries(found) :
                 /\ ContentSimilarity[QueryIndex(last_search.query)][found[i].doc.id]
                        > SimilarityThreshold
                 /\ \A j \in TagEntries(found) : found[j].doc.id # found[i].doc.id
           /\ \A i \in 1..Len(found) : Occurrences(found, found[i].doc.id) = 1
           /\ \A i \in 1..Len(res) : Occurrences(res, res[i].doc.id) = 1

C25_Witness ==
    /\ Searched
    /\ last_search.query = QueryList[Len(QueryList)]
    /\ last_search.top_k = MaxTopK
    /\ Cardinality(TagEntries(last_search.results)) = 2
    /\ Cardinality(ContentEntries(last_search.results)) = 1

-----------------------------------------------------------------------------
(* Properties of the MCP client manager (specification SpecMCP)            *)

\* a call into drive_mcp was made in this step and the module was importable
McpCallMade == mcp_calls' = mcp_calls + 1 /\ mcp_last'.outcome # "NameError"

\* C22: there is one shared MCPClientManager: every MCPClientManager() yields
\* the same object; connect(server_url) made while a client for the same
\* server_url exists returns that client and constructs none, whatever
\* connect and disconnect calls came before; a client is constructed only
\* when the manager holds none or holds one for another URL.
C22_ConnectReusesClient ==
    [][McpCallMade =>
        /\ mcp_last'.manager = manager_instance'
        /\ manager_instance # 0 => manager_instance' = manager_instance
        /\ instances_created' <= 1
        /\ mcp_last'.op \in {"connect", "initialize"} =>
              /\ (manager_client # 0 /\ manager_server_url = mcp_last'.server_url) =>
                    /\ mcp_last'.client = manager_client
                    /\ clients_created' = clients_created
                    /\ manager_client' = manager_client
              /\ clients_created' # clients_created =>
                    /\ manager_client = 0 \/ manager_server_url # mcp_last'.server_url
                    /\ clients_created' = clients_created + 1
                    /\ manager_client' = clients_created'
                    /\ manager_server_url' = mcp_last'.server_url]_vars

\* a connect that reused the client made two calls earlier, after a
\* disconnect and a reconnect had replaced the first client
C22_Witness ==
    /\ mcp_calls = 4
    /\ mcp_last.op = "connect"
    /\ mcp_last.outcome = "returned"
    /\ mcp_last.client = 2
    /\ manager_client = 2
    /\ clients_created = 2
    /\ instances_created = 1

\* C23: initialize_mcp_connection returns the tools the server advertises
\* when discovery succeeds; when discovery fails (library unavailable,
\* connection error, get_tools error) and fallback_to_mock is true, the
\* caller gets exactly the two mock operations and no exception; when
\* fallback_to_mock is false the caller gets the exception.
C23_FallbackToMockOnAnyFailure ==
    [][(mcp_calls' = mcp_calls + 1 /\ mcp_last'.op = "initialize") =>
        /\ mcp_last'.discovery = "succeeded" =>
              mcp_last'.outcome = "returned"
        /\ (mcp_last'.discovery # "succeeded" /\ mcp_last'.fallback_to_mock) =>
              /\ mcp_last'.outcome = "returned"
              /\ mcp_last'.tools = <<"list_drive_files", "read_drive_file">>
        /\ (mcp_last'.discovery # "succeeded" /\ ~mcp_last'.fallback_to_mock) =>
              mcp_last'.outcome \in {"raised", "ValueError", "NameError"}]_vars

\* the part of C23 that concerns an importable module: connection and
\* get_tools failures fall back to the mock operations
InitializeFallsBackWhenImported ==
    [][(mcp_calls' = mcp_calls + 1 /\ mcp_last'.op = "initialize" /\ MCP_AVAILABLE) =>
        /\ mcp_last'.discovery = "succeeded" => mcp_last'.outcome = "returned"
        /\ (mcp_last'.discovery # "succeeded" /\ mcp_last'.fallback_to_mock) =>
              /\ mcp_last'.outcome = "returned"
              /\ mcp_last'.tools = <<"list_drive_files", "read_drive_file">>
        /\ (mcp_last'.discovery # "succeeded" /\ ~mcp_last'.fallback_to_mock) =>
              mcp_last'.outcome = "raised"]_vars

-----------------------------------------------------------------------------
(* Properties of the habit log (specification SpecHabit)                   *)

CheckInsOf(db, user_id, habit_name) == db[user_id].habits[habit_name].check_ins

MilestonesOf(db, user_id) == db[user_id].milestones

\* C26: log_habit records at most one check-in per user, habit and calendar
\* day: once a log_habit call for a user and a valid habit has reported
\* success, every further call for the same user and habit on the same day
\* returns the "already logged" warning and leaves that habit's check_ins
\* and the user's milestones as they were; no habit ever holds two
\* check-ins of one day.
C26_OneCheckInPerDay ==
    /\ [](\A u \in DOMAIN MOCK_DB : \A h \in DOMAIN MOCK_DB[u].habits :
            \A i, j \in 1..Len(CheckInsOf(MOCK_DB, u, h)) :
                CheckInsOf(MOCK_DB, u, h)[i].date = CheckInsOf(MOCK_DB, u, h)[j].date
                    => i = j)
    /\ [][(habit_calls' = habit_calls + 1
            /\ <<last_log'.user_id, last_log'.habit_name, today>> \in logged_ok) =>
            /\ last_log'.kind = "already"
            /\ last_log'.text = "You've already logged " \o last_log'.habit_name
                                    \o " today! One entry per day."
            /\ CheckInsOf(MOCK_DB', last_log'.user_id, last_log'.habit_name)
                  = CheckInsOf(MOCK_DB, last_log'.user_id, last_log'.habit_name)
            /\ MilestonesOf(MOCK_DB', last_log'.user_id)
                  = MilestonesOf(MOCK_DB, last_log'.user_id)]_vars

\* a second call for a habit that was logged with success earlier the same day
C26_Witness ==
    /\ last_log.kind = "already"
    /\ last_log.user_id = "user_456"
    /\ last_log.habit_name = "water"
    /\ <<"user_456", "water", today>> \in logged_ok
    /\ Len(CheckInsOf(MOCK_DB, "user_456", "water")) = 1

-----------------------------------------------------------------------------
(* Properties of the chat session (specification SpecApp)                  *)

\* the message list of st.session_state.agent_state
AgentMessages == list_objects[session_agent_state.messages]

RoleOf(message) == IF message.type = "human" THEN "user" ELSE "assistant"

\* C27: after every chat turn, whether workflow.invoke returned or raised,
\* st.session_state.messages and agent_state["messages"] hold the same
\* number of messages, with the same order of user and assistant entries.
C27_HistoriesInSync ==
    chat_turns >= 0 =>
        /\ Len(session_messages) = Len(AgentMessages)
        /\ \A i \in 1..Len(session_messages) :
              i <= Len(AgentMessages) =>
                  /\ session_messages[i].role = RoleOf(AgentMessages[i])
                  /\ session_messages[i].content = AgentMessages[i].content.text

\* a turn in which invoke raised, after a turn that was answered
C27_Witness ==
    /\ chat_turns = 2
    /\ last_invoke = "raised"
    /\ Len(session_messages) = 3
    /\ session_messages[2].role = "assistant"
    /\ session_messages[3].role = "user"
    /\ Len(AgentMessages) = 3

-----------------------------------------------------------------------------
(* Further properties of a turn of the main graph (specification SpecTurn) *)

-----------------------------------------------------------------------------
(* Properties of the query of the retrieval loop (specification SpecQuery) *)

\* a node of the loop ran in this step
NodeRan == steps' = steps + 1 \/ (pc = "grade" /\ pc' # "grade")

====
